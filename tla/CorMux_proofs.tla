---------------------------- MODULE CorMux_proofs ----------------------------
(***************************************************************************)
(* Theorems about CorMux, for any number of coroutines, peers and slots.   *)
(* Each step moves one coroutine and touches one connection.  Moves says   *)
(* what that does to the turns, to the numbers of the calls and to the     *)
(* requests on their way; a lemma per action shows that it is such a move, *)
(* and a lemma per part of the invariant that such moves keep it.          *)
(***************************************************************************)
EXTENDS CorMux, SequenceTheorems, WellFoundedInduction, TLAPS

-----------------------------------------------------------------------------
(* Sequences and numbers                                                   *)

\* Min of a set of indices is in the set.
LEMMA MinIsIn ==
  ASSUME NEW X, X \subseteq Nat, X # {}
  PROVE  Min(X) \in X
<1>1. PICK x \in X : \A y \in X : <<y, x>> \notin OpToRel(<, Nat)
  BY NatLessThanWellFounded, WFMin
<1>2. \A y \in X : ~ (y < x)
  BY <1>1 DEF OpToRel
<1>3. \A y \in X : x =< y
  BY <1>2
<1> QED
  BY <1>3 DEF Min

\* A member more in front of a list.
LEMMA MoreMembers ==
  ASSUME NEW S, NEW q \in Seq(S), NEW e \in S
  PROVE  <<e>> \o q \in Seq(S) /\ Members(<<e>> \o q) = Members(q) \cup {e}
<1> DEFINE r == <<e>> \o q
<1>1. Len(q) \in Nat /\ DOMAIN q = 1 .. Len(q)
  BY LenProperties
<1>2. r \in Seq(S) /\ Len(r) = Len(q) + 1 /\ \A k \in 1 .. Len(q) + 1 : r[k] = IF k = 1 THEN e ELSE q[k - 1]
  BY <1>1, ConcatProperties
<1>3. DOMAIN r = 1 .. Len(q) + 1
  BY <1>2, LenProperties
<1> HIDE DEF r
<1>4. Members(r) \subseteq Members(q) \cup {e}
  BY <1>1, <1>2, <1>3 DEF Members
<1>5. e \in Members(r)
  BY <1>1, <1>2, <1>3 DEF Members
<1>6. ASSUME NEW i \in 1 .. Len(q) PROVE q[i] \in Members(r)
  <2>1. i + 1 \in 1 .. Len(q) + 1 /\ r[i + 1] = q[i]
    BY <1>1, <1>2
  <2> QED
    BY <1>3, <2>1 DEF Members
<1>7. Members(q) \subseteq Members(r)
  BY <1>1, <1>6 DEF Members
<1> QED
  BY <1>2, <1>4, <1>5, <1>7 DEF r


\* A list without its i-th member.
LEMMA Removed ==
  ASSUME NEW S, NEW s \in Seq(S), NEW i \in DOMAIN s
  PROVE  /\ RemoveAt(s, i) \in Seq(S)
         /\ DOMAIN RemoveAt(s, i) = 1 .. Len(s) - 1
         /\ \A k \in 1 .. Len(s) - 1 : RemoveAt(s, i)[k] = IF k < i THEN s[k] ELSE s[k + 1]
<1> DEFINE p == SubSeq(s, 1, i - 1)
           q == SubSeq(s, i + 1, Len(s))
           r == RemoveAt(s, i)
<1>1. Len(s) \in Nat /\ DOMAIN s = 1 .. Len(s) /\ i \in 1 .. Len(s) /\ \A k \in 1 .. Len(s) : s[k] \in S
  BY LenProperties, ElementOfSeq
<1>2. p \in Seq(S) /\ Len(p) = i - 1 /\ \A k \in 1 .. i - 1 : p[k] = s[k]
  BY <1>1, SubSeqProperties
<1>3. q \in Seq(S) /\ Len(q) = Len(s) - i /\ \A k \in 1 .. Len(s) - i : q[k] = s[i + k]
  BY <1>1, SubSeqProperties
<1>p. r = p \o q
  BY DEF RemoveAt
<1> HIDE DEF p, q, r
<1>c. /\ p \o q \in Seq(S) /\ Len(p \o q) = Len(p) + Len(q)
      /\ \A k \in 1 .. Len(p) + Len(q) : (p \o q)[k] = IF k <= Len(p) THEN p[k] ELSE q[k - Len(p)]
  BY <1>2, <1>3, ConcatProperties
<1>4. r \in Seq(S) /\ DOMAIN r = 1 .. Len(s) - 1
  <2>1. r \in Seq(S)
    BY <1>p, <1>c
  <2>2. Len(r) = Len(s) - 1
    BY <1>1, <1>2, <1>3, <1>p, <1>c
  <2> QED
    BY <2>1, <2>2, LenProperties
<1>5. ASSUME NEW k \in 1 .. Len(s) - 1 PROVE r[k] = IF k < i THEN s[k] ELSE s[k + 1]
  <2>1. CASE k < i
    BY <1>1, <1>2, <1>3, <1>p, <1>c, <2>1
  <2>2. CASE k >= i
    <3>1. k - (i - 1) \in 1 .. Len(s) - i /\ i + (k - (i - 1)) = k + 1
      BY <1>1, <2>2
    <3>2. r[k] = q[k - (i - 1)]
      <4>1. Len(p) = i - 1 /\ k \in 1 .. Len(p) + Len(q) /\ ~(k <= Len(p))
        BY <1>1, <1>2, <1>3, <2>2
      <4>2. r[k] = q[k - Len(p)]
        BY <1>p, <1>c, <4>1
      <4> QED
        BY <4>1, <4>2
    <3>3. q[k - (i - 1)] = s[i + (k - (i - 1))]
      BY <1>3, <3>1
    <3> QED
      BY <3>1, <3>2, <3>3, <1>1, <2>2
  <2> QED
    BY <1>1, <2>1, <2>2
<1> QED
  BY <1>4, <1>5 DEF r

\* The entries of a connection's list
Entries == [call : AllCalls, correlation : Nat]

\* No call stands in the list twice.
Once(q) == \A i, j \in DOMAIN q : q[i].call = q[j].call => i = j

\* callUnlink takes out entries of that call only; and the call, if it stood there
\* once.
LEMMA WithoutOne ==
  ASSUME NEW q \in Seq(Entries), NEW call
  PROVE  /\ Without(q, call) \in Seq(Entries)
         /\ Members(Without(q, call)) \subseteq Members(q)
         /\ \A e \in Members(q) : e.call # call => e \in Members(Without(q, call))
         /\ Once(q) => /\ Once(Without(q, call))
                       /\ \A e \in Members(Without(q, call)) : e.call # call
<1> DEFINE at == {i \in DOMAIN q : q[i].call = call}
           r == Without(q, call)
<1>1. Len(q) \in Nat /\ DOMAIN q = 1 .. Len(q)
  BY LenProperties
<1>2. CASE at = {}
  <2>1. r = q
    BY <1>2 DEF Without
  <2>2. \A e \in Members(q) : e.call # call
    BY <1>2 DEF Members
  <2> QED
    BY <2>1, <2>2
<1>3. CASE at # {}
  <2>0. at \subseteq Nat
    BY <1>1
  <2>1. Min(at) \in at
    <3> HIDE DEF at
    <3> QED
      BY <1>3, <2>0, MinIsIn
  <2>2. PICK i \in DOMAIN q : i = Min(at) /\ q[i].call = call
    BY <2>1
  <2>3. r = RemoveAt(q, i)
    BY <1>3, <2>2 DEF Without
  <2> HIDE DEF r
  <2>4. /\ r \in Seq(Entries) /\ DOMAIN r = 1 .. Len(q) - 1
        /\ \A k \in 1 .. Len(q) - 1 : r[k] = IF k < i THEN q[k] ELSE q[k + 1]
    BY <2>3, Removed
  <2>5. Members(r) \subseteq Members(q)
    <3>1. ASSUME NEW k \in 1 .. Len(q) - 1 PROVE r[k] \in {q[j] : j \in 1 .. Len(q)}
      <4>1. k \in 1 .. Len(q) /\ k + 1 \in 1 .. Len(q)
        BY <1>1
      <4> QED
        BY <2>4, <4>1
    <3> QED
      BY <1>1, <2>4, <3>1 DEF Members
  <2>6. ASSUME NEW e \in Members(q), e.call # call PROVE e \in Members(r)
    <3>1. PICK k \in DOMAIN q : e = q[k]
      BY DEF Members
    <3>2. k # i
      BY <2>2, <2>6, <3>1
    <3>3. CASE k < i
      <4>1. k \in DOMAIN r /\ r[k] = e
        BY <1>1, <2>4, <3>1, <3>3
      <4> QED
        BY <4>1 DEF Members
    <3>4. CASE k > i
      <4>1. k - 1 \in DOMAIN r /\ r[k - 1] = e
        BY <1>1, <2>4, <3>1, <3>4
      <4> QED
        BY <4>1 DEF Members
    <3> QED
      BY <1>1, <3>2, <3>3, <3>4
  <2>7. ASSUME Once(q), NEW k \in DOMAIN r, NEW l \in DOMAIN r, r[k].call = r[l].call PROVE k = l
    <3>1. PICK m \in DOMAIN q : m # i /\ r[k] = q[m] /\ (m = k \/ m = k + 1) /\ (m = k <=> k < i)
      <4>1. k \in 1 .. Len(q) - 1 /\ k + 1 \in DOMAIN q /\ k \in DOMAIN q /\ k \in Nat /\ i \in Nat
        BY <1>1, <2>4
      <4>2. CASE k < i
        BY <2>4, <4>1, <4>2
      <4>3. CASE ~(k < i)
        <5>1. r[k] = q[k + 1]
          BY <2>4, <4>1, <4>3
        <5>2. k + 1 # i /\ k + 1 # k
          BY <4>1, <4>3
        <5> QED
          BY <4>1, <4>3, <5>1, <5>2
      <4> QED
        BY <4>2, <4>3
    <3>2. PICK n \in DOMAIN q : n # i /\ r[l] = q[n] /\ (n = l \/ n = l + 1) /\ (n = l <=> l < i)
      <4>1. l \in 1 .. Len(q) - 1 /\ l + 1 \in DOMAIN q /\ l \in DOMAIN q /\ l \in Nat /\ i \in Nat
        BY <1>1, <2>4
      <4>2. CASE l < i
        BY <2>4, <4>1, <4>2
      <4>3. CASE ~(l < i)
        <5>1. r[l] = q[l + 1]
          BY <2>4, <4>1, <4>3
        <5>2. l + 1 # i /\ l + 1 # l
          BY <4>1, <4>3
        <5> QED
          BY <4>1, <4>3, <5>1, <5>2
      <4> QED
        BY <4>2, <4>3
    <3>3. m = n
      BY <2>7, <3>1, <3>2 DEF Once
    <3> QED
      BY <1>1, <2>4, <3>1, <3>2, <3>3
  <2>8. ASSUME Once(q), NEW k \in DOMAIN r PROVE r[k].call # call
    <3>1. PICK m \in DOMAIN q : m # i /\ r[k] = q[m]
      BY <1>1, <2>4
    <3> QED
      BY <2>2, <2>8, <3>1 DEF Once
  <2>9. Once(q) => Once(r) /\ \A e \in Members(r) : e.call # call
    BY <2>7, <2>8 DEF Once, Members
  <2> QED
    BY <2>4, <2>5, <2>6, <2>9 DEF r
<1> QED
  BY <1>2, <1>3

\* One more waits for the write turn, behind the others.
LEMMA MoreWaiters ==
  ASSUME NEW q \in Seq(Coroutines), NEW c \in Coroutines
  PROVE  Append(q, c) \in Seq(Coroutines) /\ Members(Append(q, c)) = Members(q) \cup {c}
<1> DEFINE r == Append(q, c)
<1>1. Len(q) \in Nat /\ DOMAIN q = 1 .. Len(q)
  BY LenProperties
<1>2. r \in Seq(Coroutines) /\ Len(r) = Len(q) + 1 /\ DOMAIN r = 1 .. Len(q) + 1
  BY AppendProperties, LenProperties
<1>3. \A k \in 1 .. Len(q) + 1 : r[k] = IF k = Len(q) + 1 THEN c ELSE q[k]
  BY <1>1, AppendProperties
<1> HIDE DEF r
<1>4. Members(r) \subseteq Members(q) \cup {c}
  BY <1>1, <1>2, <1>3 DEF Members
<1>5. Members(q) \cup {c} \subseteq Members(r)
  BY <1>1, <1>2, <1>3 DEF Members
<1> QED
  BY <1>2, <1>4, <1>5 DEF r

\* writeTurnRelease: the head, if there is one, is woken and leaves the waiters.
LEMMA ReleaseWakes ==
  ASSUME NEW m \in MuxConns
  PROVE  /\ Released(m) \in MuxConns
         /\ Released(m).open = m.open /\ Released(m).epoch = m.epoch /\ Released(m).peer = m.peer
         /\ Released(m).calls = m.calls /\ Released(m).correlation = m.correlation
         /\ ~Released(m).writing /\ Released(m).reading = m.reading
         /\ Woken(m) \subseteq Coroutines
         /\ Members(m.writers) \subseteq Members(Released(m).writers) \cup Woken(m)
<1> DEFINE q == m.writers
           t == IF q = <<>> THEN <<>> ELSE Tail(q)
<1>1. q \in Seq(Coroutines) /\ Len(q) \in Nat /\ DOMAIN q = 1 .. Len(q)
  BY LenProperties DEF MuxConns
<1>2. t \in Seq(Coroutines)
  BY <1>1
<1>3. Woken(m) \subseteq Coroutines
  BY <1>1 DEF Woken
<1>4. Members(q) \subseteq Members(t) \cup Woken(m)
  <2>1. CASE q = <<>>
    BY <2>1 DEF Members
  <2>2. CASE q # <<>>
    <3>1. Len(t) = Len(q) - 1 /\ DOMAIN t = 1 .. Len(q) - 1 /\ \A k \in 1 .. Len(q) - 1 : t[k] = q[k + 1]
      BY <1>1, <2>2, HeadTailProperties, LenProperties
    <3>2. Woken(m) = {q[1]}
      BY <2>2 DEF Woken
    <3> HIDE DEF t
    <3>3. ASSUME NEW k \in 1 .. Len(q) PROVE q[k] \in Members(t) \cup Woken(m)
      <4>1. CASE k = 1
        BY <3>2, <4>1
      <4>2. CASE k # 1
        <5>1. k - 1 \in DOMAIN t /\ t[k - 1] = q[k]
          BY <1>1, <3>1, <4>2
        <5> QED
          BY <5>1 DEF Members
      <4> QED
        BY <4>1, <4>2
    <3> QED
      BY <1>1, <3>3 DEF Members
  <2> QED
    BY <2>1, <2>2
<1>5. Released(m) = [m EXCEPT !.writing = FALSE, !.writers = t]
  BY DEF Released
<1> HIDE DEF t
<1> QED
  BY <1>1, <1>2, <1>3, <1>4, <1>5 DEF MuxConns

-----------------------------------------------------------------------------
(* A step: one coroutine moves, and touches one connection                 *)

Writing == {"sending", "connect"}

\* What a step does not change of a coroutine that does not take it.
Same(n, o) ==
  /\ n.pc = o.pc /\ n.on = o.on /\ n.epoch = o.epoch /\ n.id = o.id
  /\ n.target = o.target /\ n.frame = o.frame /\ n.live = o.live

\* A call done leaves its coroutine where it is.
LEMMA DoneFits ==
  ASSUME NEW k \in CoStates, NEW error \in Errors
  PROVE  /\ CallDone(k, error) \in CoStates
         /\ Same(CallDone(k, error), k) /\ CallDone(k, error).answer = k.answer
         /\ k.ready => CallDone(k, error).ready
         /\ CallDone(k, error).done
<1>1. PICK w \in BOOLEAN : w <=> k.ready \/ k.pc = "parked"
  OBVIOUS
<1>2. k.ready \in BOOLEAN
  BY DEF CoStates
<1>3. (k.ready \/ k.pc = "parked") = w
  BY <1>1, <1>2
<1>4. CallDone(k, error) = [k EXCEPT !.done = TRUE, !.error = error, !.ready = w]
  BY <1>3 DEF CallDone
<1>5. [k EXCEPT !.done = TRUE, !.error = error, !.ready = w] \in CoStates
  BY DEF CoStates
<1> QED
  BY <1>1, <1>4, <1>5 DEF CoStates, Same

\* Nor does waking one.
LEMMA WokenFits ==
  ASSUME NEW k \in CoStates
  PROVE  /\ [k EXCEPT !.ready = TRUE] \in CoStates
         /\ Same([k EXCEPT !.ready = TRUE], k)
         /\ [k EXCEPT !.ready = TRUE].answer = k.answer
         /\ [k EXCEPT !.ready = TRUE].done = k.done
         /\ [k EXCEPT !.ready = TRUE].ready
  BY DEF CoStates, Same

\* The coroutines o: c at k, the others where they are, those of failed done and
\* those of woken woken.
AreOthers(o, c, k, failed, woken) ==
  /\ o \in [Coroutines -> CoStates]
  /\ Same(o[c], k) /\ o[c].answer = k.answer
  /\ (k.ready \/ c \in woken) => o[c].ready
  /\ o[c].done <=> k.done \/ c \in failed
  /\ \A d \in Coroutines \ {c} :
       /\ Same(o[d], co[d]) /\ o[d].answer = co[d].answer
       /\ (co[d].ready \/ d \in woken) => o[d].ready
       /\ o[d].done <=> co[d].done \/ d \in failed

\* What Others makes of the coroutines.
LEMMA OthersAre ==
  ASSUME TypeOK, NEW c \in Coroutines, NEW k \in CoStates, NEW failed, NEW error \in Errors, NEW woken,
         NEW o, o = Others(c, k, failed, error, woken)
  PROVE  AreOthers(o, c, k, failed, woken)
<1> DEFINE b(d)    == IF d = c THEN k ELSE co[d]
           fell(d) == IF d \in failed THEN CallDone(b(d), error) ELSE b(d)
<1>1. ASSUME NEW d \in Coroutines
      PROVE  /\ o[d] \in CoStates /\ Same(o[d], b(d)) /\ o[d].answer = b(d).answer
             /\ b(d).ready \/ d \in woken => o[d].ready
             /\ o[d].done <=> b(d).done \/ d \in failed
  <2>1. b(d) \in CoStates
    BY DEF TypeOK
  <2>2. o[d] = IF d \in woken THEN [fell(d) EXCEPT !.ready = TRUE] ELSE fell(d)
    BY DEF Others
  <2> HIDE DEF b
  <2>3. /\ fell(d) \in CoStates /\ Same(fell(d), b(d)) /\ fell(d).answer = b(d).answer
        /\ b(d).ready => fell(d).ready
        /\ fell(d).done <=> b(d).done \/ d \in failed
    <3>1. CASE d \in failed
      BY <2>1, <3>1, DoneFits
    <3>2. CASE d \notin failed
      BY <2>1, <3>2 DEF Same
    <3> QED
      BY <3>1, <3>2
  <2> HIDE DEF fell
  <2>4. CASE d \in woken
    <3>1. o[d] = [fell(d) EXCEPT !.ready = TRUE]
      BY <2>2, <2>4
    <3>2. /\ o[d] \in CoStates /\ Same(o[d], fell(d)) /\ o[d].answer = fell(d).answer
          /\ o[d].ready /\ o[d].done = fell(d).done
      BY <2>3, <3>1, WokenFits
    <3> QED
      BY <2>3, <3>2 DEF Same
  <2>5. CASE d \notin woken
    BY <2>2, <2>3, <2>5
  <2> QED
    BY <2>4, <2>5
<1>2. o \in [Coroutines -> CoStates]
  BY <1>1 DEF Others
<1>3. b(c) = k /\ \A d \in Coroutines \ {c} : b(d) = co[d]
  OBVIOUS
<1> HIDE DEF b
<1> QED
  BY <1>1, <1>2, <1>3 DEF AreOthers

\* The write turn is taken by c, is left alone, or is let go by c.
Takes(c, s) ==
  /\ ~conn[s].writing /\ conn'[s].writing
  /\ co[c].pc \notin Writing /\ co'[c].pc \in Writing /\ co'[c].on = s
KeepsTurn(c, s) ==
  /\ conn'[s].writing <=> conn[s].writing
  /\ co'[c].pc \in Writing <=> co[c].pc \in Writing
  /\ co[c].pc \in Writing => co'[c].on = co[c].on
LetsGo(c, s) ==
  /\ ~conn'[s].writing /\ co[c].pc \in Writing /\ co[c].on = s /\ co'[c].pc \notin Writing

\* A call is linked; or its connection is named, opened; its request is written;
\* or calls leave the list.
LinksTo(c, s, number) ==
  /\ conn'[s].calls = <<[call |-> Call(c), correlation |-> number]>> \o conn[s].calls
  /\ conn'[s].correlation = number
  /\ co'[c].pc = "sending" /\ co'[c].on = s /\ co'[c].epoch = conn'[s].epoch /\ co'[c].id = co[c].id
  /\ flight' = flight
Links(c, s) ==
  /\ LinksTo(c, s, conn[s].correlation + 1)
  /\ conn'[s].epoch = conn[s].epoch
Opens(c, s) ==
  /\ LinksTo(c, s, 1)
  /\ conn'[s].epoch = conn[s].epoch + 1
  /\ co[c].pc = "connect" /\ co[c].on = s
Names(c, s) ==
  /\ conn'[s].calls = <<>> /\ conn'[s].epoch = conn[s].epoch /\ conn'[s].correlation = conn[s].correlation
  /\ conn[s].calls = <<>> \/ s = c
  /\ co[c].pc = "get" /\ co'[c].pc = "connect" /\ co'[c].on = s
  /\ flight' = flight
Writes(c, s) ==
  /\ conn'[s].calls = conn[s].calls
  /\ conn'[s].epoch = conn[s].epoch /\ conn'[s].correlation = conn[s].correlation
  /\ conn'[s].open <=> conn[s].open
  /\ co[c].pc = "sending" /\ co[c].on = s /\ conn[s].open /\ conn[s].epoch = co[c].epoch
  /\ co'[c].pc = "wait" /\ co'[c].id = co[c].id
  /\ flight' = flight \cup {[call |-> Call(c), peer |-> conn[s].peer, on |-> s, epoch |-> co[c].epoch,
                             correlation |-> Sequence(c)]}
Drops(c, s) ==
  /\ Members(conn'[s].calls) \subseteq Members(conn[s].calls)
  /\ conn[s].calls = <<>> => conn'[s].calls = <<>>
  /\ conn'[s].epoch = conn[s].epoch /\ conn'[s].correlation = conn[s].correlation
  /\ conn'[s].open => /\ conn[s].open
                      /\ \A d \in Coroutines \ {c} : co[d].pc = "sending" /\ co[d].on = s =>
                           \A e \in Members(conn[s].calls) :
                             e.call = Call(d) => e \in Members(conn'[s].calls)
  /\ co'[c].pc \notin Writing
  /\ flight' \subseteq flight

\* What is read is the answer to a request on its way, for its call if that is in
\* the list.
Reads(c, s) ==
  /\ co[c].on = s
  /\ \E f \in flight :
       /\ f.on = s /\ f.epoch = conn[s].epoch /\ co'[c].frame = f.call
       /\ co'[c].target = NoCall
            \/ \E e \in Members(conn[s].calls) : e.correlation = f.correlation /\ co'[c].target = e.call

\* The other connections and coroutines: who waited for the turn still does, or is
\* woken; and an answer that somebody gets is to his call.
Beside(c, s) ==
  /\ s \in Conns
  /\ \A x \in Conns \ {s} : conn'[x] = conn[x]
  /\ \A d \in Coroutines \ {c} :
       /\ Same(co'[d], co[d])
       /\ co[d].ready => co'[d].ready
       /\ d \in Members(conn[s].writers) => d \in Members(conn'[s].writers) \/ co'[d].ready
       /\ co'[d].answer = co[d].answer \/ co'[d].answer = Call(d)

\* The coroutine itself.
Itself(c, s) ==
  /\ co'[c].on \in Slots \cup {c, None}
  /\ co'[c].pc \notin {"idle", "get"} => co'[c].on # None
  /\ co'[c].pc = "turn" => co'[c].ready \/ c \in Members(conn'[co'[c].on].writers)
  /\ \/ co'[c].id = co[c].id /\ (co'[c].pc \in Unsent => co[c].pc \in Unsent)
     \/ co'[c].id = co[c].id + 1
  /\ co'[c].pc = "body" => Reads(c, s)
  /\ \/ co'[c].answer = NoCall
     \/ co'[c].id = co[c].id /\ (co'[c].answer = co[c].answer \/ co'[c].answer = Call(c))

Moves(c, s) ==
  /\ Beside(c, s) /\ Itself(c, s)
  /\ Takes(c, s) \/ KeepsTurn(c, s) \/ LetsGo(c, s)
  /\ Links(c, s) \/ Opens(c, s) \/ Names(c, s) \/ Writes(c, s) \/ Drops(c, s)

\* c has become k, the others are as they were, woken, or given their answer.
Around(c, k, woken) ==
  /\ co' \in [Coroutines -> CoStates]
  /\ Same(co'[c], k) /\ (k.ready => co'[c].ready) /\ co'[c].answer = k.answer
  /\ \A d \in Coroutines \ {c} :
       /\ Same(co'[d], co[d])
       /\ (co[d].ready \/ d \in woken) => co'[d].ready
       /\ co'[d].answer = co[d].answer \/ co'[d].answer = Call(d)

\* One connection changed, one coroutine changed.
LEMMA ConnPut ==
  ASSUME TypeOK, NEW s \in Conns, NEW m \in MuxConns
  PROVE  /\ [conn EXCEPT ![s] = m] \in [Conns -> MuxConns]
         /\ [conn EXCEPT ![s] = m][s] = m
         /\ \A x \in Conns \ {s} : [conn EXCEPT ![s] = m][x] = conn[x]
  BY DEF TypeOK

\* And one coroutine.
LEMMA CoPut ==
  ASSUME TypeOK, NEW c \in Coroutines, NEW k \in CoStates
  PROVE  /\ [co EXCEPT ![c] = k] \in [Coroutines -> CoStates]
         /\ [co EXCEPT ![c] = k][c] = k
         /\ \A d \in Coroutines \ {c} : [co EXCEPT ![c] = k][d] = co[d]
  BY DEF TypeOK

\* Where a coroutine is on its way to the peer.
LEMMA Here ==
  ASSUME TypeOK, OnOwn, NEW c \in Coroutines
  PROVE  /\ co[c] \in CoStates
         /\ co[c].pc \notin {"idle", "get"} =>
              /\ co[c].on \in Slots \cup {c} /\ co[c].on \in Conns /\ conn[co[c].on] \in MuxConns
  BY DEF TypeOK, OnOwn, Conns

\* Only c changes.
LEMMA Alone ==
  ASSUME TypeOK, NEW c \in Coroutines, NEW k \in CoStates, co' = [co EXCEPT ![c] = k]
  PROVE  Around(c, k, {})
  BY CoPut DEF Around, Same

\* The others may have their calls done, or be woken.
LEMMA WithOthers ==
  ASSUME TypeOK, NEW c \in Coroutines, NEW k \in CoStates, NEW failed, NEW error \in Errors, NEW woken,
         co' = Others(c, k, failed, error, woken)
  PROVE  Around(c, k, woken)
<1>1. AreOthers(co', c, k, failed, woken)
  BY OthersAre
<1> QED
  BY <1>1 DEF AreOthers, Around

\* Where nobody's wait for the turn is forgotten.
LEMMA KeepsOthers ==
  ASSUME TypeOK, NEW c \in Coroutines, NEW s \in Conns, NEW m \in MuxConns, NEW k \in CoStates, NEW woken,
         conn' = [conn EXCEPT ![s] = m], Around(c, k, woken),
         running' \in Coroutines \cup {None}, flight' \subseteq Requests,
         freedUse' \in BOOLEAN /\ broken' \in BOOLEAN,
         Members(conn[s].writers) \subseteq Members(m.writers) \cup woken
  PROVE  TypeOK' /\ Beside(c, s) /\ conn'[s] = m
<1>1. conn' \in [Conns -> MuxConns] /\ conn'[s] = m /\ \A x \in Conns \ {s} : conn'[x] = conn[x]
  BY ConnPut
<1>2. TypeOK'
  BY <1>1 DEF TypeOK, Around
<1> QED
  BY <1>1, <1>2 DEF Beside, Around

\* The turn is somebody's: behind the others in the queue.
LEMMA GetWaitMoves ==
  ASSUME TypeOK, OnOwn, NEW c \in Coroutines, GetWait(c)
  PROVE  TypeOK' /\ \E s \in Conns : Moves(c, s)
<1>1. PICK s \in Conns : s = Min(Match(c)) /\ s \in Slots
  <2>1. Match(c) \subseteq Nat /\ Match(c) # {}
    BY DEF GetWait, Match, Slots
  <2>2. Min(Match(c)) \in Match(c)
    BY <2>1, MinIsIn
  <2> QED
    BY <2>2 DEF Match, Conns
<1> DEFINE m == [conn[s] EXCEPT !.writers = Append(@, c)]
           k == [co[c] EXCEPT !.pc = "turn", !.on = s]
<1>2. conn[s] \in MuxConns /\ co[c] \in CoStates
  BY DEF TypeOK
<1>3. conn' = [conn EXCEPT ![s] = m] /\ co' = [co EXCEPT ![c] = k] /\ running' = None
      /\ flight' = flight /\ freedUse' = freedUse /\ broken' = broken /\ co[c].pc = "get"
  BY <1>1 DEF GetWait, Runs, TypeOK
<1>4. /\ m \in MuxConns /\ m.writers = Append(conn[s].writers, c) /\ m.calls = conn[s].calls
      /\ m.epoch = conn[s].epoch /\ m.correlation = conn[s].correlation
      /\ m.open = conn[s].open /\ m.writing = conn[s].writing
  BY <1>2, MoreWaiters DEF MuxConns
<1>5. /\ k \in CoStates /\ k.pc = "turn" /\ k.on = s /\ k.id = co[c].id /\ k.answer = co[c].answer
  BY <1>2 DEF CoStates, Pcs
<1> HIDE DEF m, k
<1>6. Around(c, k, {})
  BY <1>3, <1>5, Alone
<1>7. Members(m.writers) = Members(conn[s].writers) \cup {c}
  BY <1>2, <1>4, MoreWaiters DEF MuxConns
<1>8. TypeOK' /\ Beside(c, s) /\ conn'[s] = m
  BY <1>3, <1>4, <1>5, <1>6, <1>7, KeepsOthers DEF TypeOK
<1>9. KeepsTurn(c, s) /\ Drops(c, s)
  BY <1>3, <1>4, <1>5, <1>6, <1>8 DEF KeepsTurn, Drops, Writing, Around, Same
<1>10. Itself(c, s)
  BY <1>1, <1>3, <1>5, <1>6, <1>7, <1>8, MuxAssumption DEF Itself, Around, Same, Unsent
<1> QED
  BY <1>8, <1>9, <1>10 DEF Moves

\* A fresh call has the next number, and no answer.
LEMMA FreshFits ==
  ASSUME NEW k \in CoStates
  PROVE  /\ FreshCall(k) \in CoStates /\ FreshCall(k).pc = "get" /\ FreshCall(k).id = k.id + 1
         /\ FreshCall(k).on = k.on /\ FreshCall(k).answer = NoCall
         /\ ~FreshCall(k).done /\ FreshCall(k).live /\ FreshCall(k).left = k.left
<1> DEFINE f == FreshCall(k)
<1>1. k.id + 1 \in Nat /\ "get" \in Pcs /\ 1 \in {0, 1, 2}
  BY DEF CoStates, Pcs
<1> DEFINE g == [k EXCEPT !.pc = "get", !.attempt = 1, !.id = k.id + 1, !.done = FALSE, !.error = "none"]
<1>a. g \in CoStates
  BY <1>1 DEF CoStates, Errors
<1>b. f = [g EXCEPT !.expired = FALSE, !.reused = FALSE, !.live = TRUE, !.ready = FALSE, !.answer = NoCall]
  BY DEF FreshCall, CoStates
<1> HIDE DEF g, f
<1>2. f \in CoStates
  BY <1>a, <1>b DEF CoStates
<1> USE DEF f
<1>3. f.pc = "get" /\ f.id = k.id + 1 /\ f.on = k.on
  BY DEF FreshCall, CoStates
<1>4. f.answer = NoCall /\ f.done = FALSE /\ f.live = TRUE /\ f.left = k.left
  BY DEF FreshCall, CoStates
<1> QED
  BY <1>2, <1>3, <1>4

\* corRestCorSend: the next call of the coroutine.
LEMMA SendMoves ==
  ASSUME TypeOK, OnOwn, NEW c \in Coroutines, NEW p \in Peers, Send(c, p)
  PROVE  TypeOK' /\ \E s \in Conns : Moves(c, s)
<1> DEFINE f == FreshCall(co[c])
           k == [f EXCEPT !.want = p, !.try = 1, !.left = f.left - 1, !.timedOut = FALSE]
<1>0. c \in Conns /\ conn[c] \in MuxConns /\ co[c] \in CoStates /\ co[c].on \in Slots \cup {c, None}
  BY DEF TypeOK, Conns, OnOwn
<1>a. co' = [co EXCEPT ![c] = k] /\ co[c].pc = "idle" /\ f.left > 0
  BY DEF Send, Runs, TypeOK
<1>b. conn' = conn /\ running' = c /\ flight' = flight /\ freedUse' = freedUse /\ broken' = broken
  BY DEF Send
<1>c. conn' = [conn EXCEPT ![c] = conn[c]]
  BY <1>b DEF TypeOK
<1>1. /\ co' = [co EXCEPT ![c] = k] /\ conn' = [conn EXCEPT ![c] = conn[c]] /\ conn' = conn
      /\ running' = c /\ flight' = flight /\ freedUse' = freedUse /\ broken' = broken
      /\ co[c].pc = "idle" /\ f.left > 0
  BY <1>a, <1>b, <1>c
<1>f. /\ f \in CoStates /\ f.pc = "get" /\ f.id = co[c].id + 1
      /\ f.on = co[c].on /\ f.answer = NoCall
  BY <1>0, FreshFits
<1> HIDE DEF f
<1>2. f.left - 1 \in 0 .. MaxCalls /\ 1 \in {0, 1, 2} /\ p \in Peers \cup {None}
  BY <1>1, <1>f, MuxAssumption DEF CoStates
<1>3. k \in CoStates /\ k.pc = "get" /\ k.id = co[c].id + 1 /\ k.on = co[c].on /\ k.answer = NoCall
  BY <1>2, <1>f DEF CoStates
<1> HIDE DEF k
<1>4. Around(c, k, {})
  BY <1>1, <1>3, Alone
<1>5. TypeOK' /\ Beside(c, c)
  BY <1>0, <1>1, <1>3, <1>4, KeepsOthers DEF TypeOK
<1>6. KeepsTurn(c, c) /\ Drops(c, c)
  BY <1>1, <1>3, <1>4 DEF KeepsTurn, Drops, Writing, Around, Same
<1>7. Itself(c, c)
  BY <1>0, <1>1, <1>3, <1>4 DEF Itself, Around, Same
<1> QED
  BY <1>0, <1>5, <1>6, <1>7 DEF Moves

\* The entry of a call, and the connection with it.
LEMMA LinkedFits ==
  ASSUME TypeOK, NEW c \in Coroutines, NEW m \in MuxConns
  PROVE  /\ Linked(c, m) \in MuxConns
         /\ Linked(c, m).calls = <<[call |-> Call(c), correlation |-> m.correlation + 1]>> \o m.calls
         /\ Linked(c, m).correlation = m.correlation + 1
         /\ Linked(c, m).epoch = m.epoch /\ Linked(c, m).open = m.open
         /\ Linked(c, m).writing = m.writing /\ Linked(c, m).reading = m.reading
         /\ Linked(c, m).writers = m.writers
<1> DEFINE e == [call |-> Call(c), correlation |-> m.correlation + 1]
           l == <<e>> \o m.calls
<1>1. m.calls \in Seq(Entries) /\ m.correlation \in Nat
  BY DEF MuxConns, Entries
<1>2. e \in Entries
  BY <1>1 DEF Entries, Call, AllCalls, TypeOK, CoStates
<1>3. l \in Seq([call : AllCalls, correlation : Nat])
  BY <1>1, <1>2, MoreMembers DEF Entries
<1>4. Linked(c, m) = [m EXCEPT !.correlation = m.correlation + 1, !.calls = l]
  BY DEF Linked
<1> HIDE DEF l
<1>5. /\ Linked(c, m) \in MuxConns /\ Linked(c, m).calls = l /\ Linked(c, m).correlation = m.correlation + 1
      /\ Linked(c, m).epoch = m.epoch /\ Linked(c, m).open = m.open
      /\ Linked(c, m).writing = m.writing /\ Linked(c, m).reading = m.reading
      /\ Linked(c, m).writers = m.writers
  <2>1. m.correlation + 1 \in Nat
    BY <1>1
  <2>2. Linked(c, m) \in MuxConns
    BY <1>3, <1>4, <2>1 DEF MuxConns
  <2> QED
    BY <1>4, <2>2 DEF MuxConns
<1> QED
  BY <1>5 DEF l

\* A coroutine that writes is on the connection it writes to, as it is now.
LEMMA SendingFits ==
  ASSUME NEW k \in CoStates, NEW s \in Conns, NEW m \in MuxConns, NEW reused \in BOOLEAN
  PROVE  /\ Sending(k, s, m, reused) \in CoStates
         /\ Sending(k, s, m, reused).pc = "sending" /\ Sending(k, s, m, reused).on = s
         /\ Sending(k, s, m, reused).epoch = m.epoch /\ Sending(k, s, m, reused).id = k.id
         /\ Sending(k, s, m, reused).answer = k.answer
         /\ Sending(k, s, m, reused).done = k.done /\ Sending(k, s, m, reused).live = k.live
<1> DEFINE f == Sending(k, s, m, reused)
<1>1. m.epoch \in Nat /\ "sending" \in Pcs
  BY DEF MuxConns, Pcs
<1>2. f \in CoStates
  BY <1>1 DEF Sending, CoStates
<1>3. f.pc = "sending" /\ f.on = s /\ f.epoch = m.epoch /\ f.id = k.id
  BY DEF Sending, CoStates
<1>4. f.answer = k.answer /\ f.done = k.done /\ f.live = k.live
  BY DEF Sending, CoStates
<1> QED
  BY <1>2, <1>3, <1>4

\* A call linked on an open connection, with the write turn taken.
LEMMA TurnMoves ==
  ASSUME TypeOK, OnOwn, NEW c \in Coroutines, NEW s \in Conns, s \in Slots \cup {c},
         ~conn[s].writing, co[c].pc \in {"get", "turn"},
         conn' = [conn EXCEPT ![s] = [Linked(c, @) EXCEPT !.writing = TRUE]],
         co' = [co EXCEPT ![c] = Sending(@, s, conn[s], TRUE)],
         running' \in Coroutines \cup {None}, flight' = flight, freedUse' = freedUse /\ broken' = broken
  PROVE  TypeOK' /\ Moves(c, s)
<1> DEFINE l == Linked(c, conn[s])
           m == [l EXCEPT !.writing = TRUE]
           k == Sending(co[c], s, conn[s], TRUE)
<1>1. conn[s] \in MuxConns /\ co[c] \in CoStates
  BY DEF TypeOK
<1>2. conn' = [conn EXCEPT ![s] = m] /\ co' = [co EXCEPT ![c] = k]
  BY DEF TypeOK
<1>3. /\ l \in MuxConns
      /\ l.calls = <<[call |-> Call(c), correlation |-> conn[s].correlation + 1]>> \o conn[s].calls
      /\ l.correlation = conn[s].correlation + 1 /\ l.epoch = conn[s].epoch /\ l.writers = conn[s].writers
  BY <1>1, LinkedFits
<1>t. TRUE \in BOOLEAN
  OBVIOUS
<1>4. /\ k \in CoStates /\ k.pc = "sending" /\ k.on = s /\ k.epoch = conn[s].epoch
      /\ k.id = co[c].id /\ k.answer = co[c].answer
  BY <1>1, <1>t, SendingFits, ZenonT(30)
<1> HIDE DEF l, k
<1>5. /\ m \in MuxConns /\ m.calls = l.calls /\ m.correlation = l.correlation /\ m.epoch = l.epoch
      /\ m.writers = l.writers /\ m.writing
  BY <1>3 DEF MuxConns
<1> HIDE DEF m
<1>6. Around(c, k, {})
  BY <1>2, <1>4, Alone
<1>7. TypeOK' /\ Beside(c, s) /\ conn'[s] = m
  <2>1. /\ running' \in Coroutines \cup {None} /\ flight' \subseteq Requests
        /\ freedUse' \in BOOLEAN /\ broken' \in BOOLEAN
        /\ Members(conn[s].writers) \subseteq Members(m.writers) \cup {}
    BY <1>3, <1>5 DEF TypeOK
  <2>2. TypeOK /\ c \in Coroutines /\ s \in Conns
    OBVIOUS
  <2> QED
    BY ONLY <2>1, <2>2, <1>2, <1>4, <1>5, <1>6, KeepsOthers
<1>8. Takes(c, s) /\ Links(c, s)
  <2>1. co'[c].pc = "sending" /\ co'[c].on = s /\ co'[c].epoch = conn[s].epoch /\ co'[c].id = co[c].id
    BY ONLY <1>4, <1>6 DEF Around, Same
  <2>2. Takes(c, s)
    BY <1>5, <1>7, <2>1 DEF Takes, Writing
  <2>3. Links(c, s)
    BY <1>3, <1>5, <1>7, <2>1 DEF Links, LinksTo
  <2> QED
    BY <2>2, <2>3
<1>9. Itself(c, s)
  <2>1. co'[c].pc = "sending" /\ co'[c].on = s /\ co'[c].id = co[c].id /\ co'[c].answer = co[c].answer
    BY ONLY <1>4, <1>6 DEF Around, Same
  <2>2. s # None
    BY MuxAssumption
  <2> QED
    BY ONLY <2>1, <2>2, s \in Slots \cup {c}, co[c].pc \in {"get", "turn"} DEF Itself, Unsent
<1> QED
  BY <1>7, <1>8, <1>9 DEF Moves

\* The turn found free, where the connection was looked up.
LEMMA GetTurnMoves ==
  ASSUME TypeOK, OnOwn, NEW c \in Coroutines, GetTurn(c)
  PROVE  TypeOK' /\ \E s \in Conns : Moves(c, s)
<1>1. PICK s \in Conns : s = Min(Match(c)) /\ s \in Slots
  <2>1. Match(c) \subseteq Nat /\ Match(c) # {}
    BY DEF GetTurn, Match, Slots
  <2>2. Min(Match(c)) \in Match(c)
    BY <2>1, MinIsIn
  <2> QED
    BY <2>2 DEF Match, Conns
<1>2. /\ ~conn[s].writing /\ co[c].pc = "get"
      /\ conn' = [conn EXCEPT ![s] = [Linked(c, @) EXCEPT !.writing = TRUE]]
      /\ co' = [co EXCEPT ![c] = Sending(@, s, conn[s], TRUE)]
      /\ running' = None /\ flight' = flight /\ freedUse' = freedUse /\ broken' = broken
  BY <1>1 DEF GetTurn, Runs
<1>3. TypeOK' /\ Moves(c, s)
  BY <1>1, <1>2, TurnMoves
<1> QED
  BY <1>3

\* The turn found free, after a wait for it.
LEMMA TurnTakenMoves ==
  ASSUME TypeOK, OnOwn, NEW c \in Coroutines, TurnTaken(c)
  PROVE  TypeOK' /\ \E s \in Conns : Moves(c, s)
<1>1. PICK s \in Conns : s = co[c].on /\ s \in Slots \cup {c}
  BY Here DEF TurnTaken, Runs
<1>2. /\ ~conn[s].writing /\ co[c].pc = "turn"
      /\ conn' = [conn EXCEPT ![s] = [Linked(c, @) EXCEPT !.writing = TRUE]]
      /\ co' = [co EXCEPT ![c] = Sending(@, s, conn[s], TRUE)]
      /\ running' \in Coroutines \cup {None} /\ flight' = flight /\ freedUse' = freedUse /\ broken' = broken
  BY <1>1 DEF TurnTaken, Runs, TypeOK
<1>3. TypeOK' /\ Moves(c, s)
  BY <1>1, <1>2, TurnMoves
<1> QED
  BY <1>3

\* Steps that link nothing: what they make of the connection, and of the coroutine.
QuietConn(c, s, m, woken) ==
  /\ m \in MuxConns
  /\ m.epoch = conn[s].epoch /\ m.correlation = conn[s].correlation
  /\ Members(conn[s].writers) \subseteq Members(m.writers) \cup woken
  /\ Members(m.calls) \subseteq Members(conn[s].calls)
  /\ conn[s].calls = <<>> => m.calls = <<>>
  /\ m.open => /\ conn[s].open
               /\ \A d \in Coroutines \ {c} : co[d].pc = "sending" /\ co[d].on = s =>
                    \A e \in Members(conn[s].calls) : e.call = Call(d) => e \in Members(m.calls)
  /\ \/ (m.writing <=> conn[s].writing) /\ co[c].pc \notin Writing
     \/ ~m.writing /\ co[c].pc \in Writing /\ co[c].on = s
QuietCo(c, s, m, k) ==
  /\ k \in CoStates /\ k.pc \notin Writing
  /\ k.on \in Slots \cup {c, None}
  /\ k.pc \notin {"idle", "get"} => k.on # None
  /\ k.pc = "turn" => k.ready \/ (k.on = s /\ c \in Members(m.writers))
  /\ \/ /\ k.id = co[c].id /\ (k.pc \in Unsent => co[c].pc \in Unsent)
        /\ k.answer = co[c].answer \/ k.answer = Call(c)
     \/ k.id = co[c].id + 1 /\ k.answer = NoCall

\* Such a step is a move.
LEMMA QuietMoves ==
  ASSUME TypeOK, NEW c \in Coroutines, NEW s \in Conns, NEW m, NEW k, NEW woken,
         conn' = [conn EXCEPT ![s] = m], Around(c, k, woken),
         running' \in Coroutines \cup {None}, flight' \subseteq flight, freedUse' \in BOOLEAN /\ broken' \in BOOLEAN,
         QuietConn(c, s, m, woken), QuietCo(c, s, m, k),
         k.pc = "body" => Reads(c, s)
  PROVE  TypeOK' /\ \E x \in Conns : Moves(c, x)
<1>1. TypeOK' /\ Beside(c, s) /\ conn'[s] = m
  <2>1. m \in MuxConns /\ k \in CoStates /\ Members(conn[s].writers) \subseteq Members(m.writers) \cup woken
    BY DEF QuietConn, QuietCo
  <2>2. flight' \subseteq Requests
    BY DEF TypeOK
  <2> QED
    BY <2>1, <2>2, KeepsOthers
<1>2. /\ co'[c].pc = k.pc /\ co'[c].on = k.on /\ co'[c].id = k.id /\ co'[c].answer = k.answer
      /\ k.ready => co'[c].ready
  BY DEF Around, Same
<1>3. KeepsTurn(c, s) \/ LetsGo(c, s)
  BY <1>1, <1>2 DEF QuietConn, QuietCo, KeepsTurn, LetsGo
<1>4. Drops(c, s)
  BY <1>1, <1>2 DEF QuietConn, QuietCo, Drops
<1>5. Itself(c, s)
  BY <1>1, <1>2 DEF QuietCo, Itself
<1> QED
  BY <1>1, <1>3, <1>4, <1>5 DEF Moves

\* The connection as it is.
LEMMA SameConnQuiet ==
  ASSUME TypeOK, NEW c \in Coroutines, NEW s \in Conns, NEW m \in MuxConns, co[c].pc \notin Writing,
         m.epoch = conn[s].epoch, m.correlation = conn[s].correlation, m.calls = conn[s].calls,
         m.writers = conn[s].writers, m.open => conn[s].open, m.writing <=> conn[s].writing
  PROVE  QuietConn(c, s, m, {})
  BY DEF QuietConn

\* Woken, but somebody was quicker: to the end of the queue.
LEMMA TurnAgainMoves ==
  ASSUME TypeOK, OnOwn, NEW c \in Coroutines, TurnAgain(c)
  PROVE  TypeOK' /\ \E s \in Conns : Moves(c, s)
<1>1. PICK s \in Conns : s = co[c].on /\ s \in Slots \cup {c} /\ conn[s] \in MuxConns
  BY Here DEF TurnAgain, Runs
<1> DEFINE m == [conn[s] EXCEPT !.writers = Append(@, c)]
           k == [co[c] EXCEPT !.ready = FALSE]
<1>2. co[c] \in CoStates
  BY DEF TypeOK
<1>3. /\ conn' = [conn EXCEPT ![s] = m] /\ co' = [co EXCEPT ![c] = k] /\ co[c].pc = "turn"
      /\ running' \in Coroutines \cup {None} /\ flight' = flight /\ freedUse' \in BOOLEAN /\ broken' \in BOOLEAN
  BY <1>1 DEF TurnAgain, Runs, TypeOK
<1>4. /\ m \in MuxConns /\ m.writers = Append(conn[s].writers, c) /\ m.calls = conn[s].calls
      /\ m.epoch = conn[s].epoch /\ m.correlation = conn[s].correlation
      /\ m.open = conn[s].open /\ m.writing = conn[s].writing
  BY <1>1, MoreWaiters DEF MuxConns
<1>5. k \in CoStates /\ k.pc = "turn" /\ k.on = s /\ k.id = co[c].id /\ k.answer = co[c].answer
  BY <1>1, <1>2, <1>3 DEF CoStates
<1> HIDE DEF m, k
<1>6. Members(m.writers) = Members(conn[s].writers) \cup {c}
  BY <1>1, <1>4, MoreWaiters DEF MuxConns
<1>7. QuietConn(c, s, m, {})
  BY <1>3, <1>4, <1>6 DEF QuietConn, Writing
<1>8. QuietCo(c, s, m, k)
  BY <1>1, <1>3, <1>5, <1>6, MuxAssumption DEF QuietCo, Writing, Unsent
<1> QED
  BY <1>3, <1>5, <1>7, <1>8, Alone, QuietMoves

\* corRestCorStart returned NULL: the call is gone.
LEMMA StartFailsFits ==
  ASSUME NEW k \in CoStates
  PROVE  /\ StartFails(k) \in CoStates /\ StartFails(k).pc = "idle" /\ StartFails(k).on = None
         /\ StartFails(k).id = k.id /\ StartFails(k).answer = k.answer /\ ~StartFails(k).live
<1>1. "idle" \in Pcs
  BY DEF Pcs
<1>2. StartFails(k) \in CoStates
  BY <1>1 DEF StartFails, CoStates
<1> QED
  BY <1>2 DEF StartFails, CoStates

\* The turn, on a connection that is not open: let go, and the next is woken.
LEMMA TurnClosedMoves ==
  ASSUME TypeOK, OnOwn, NEW c \in Coroutines, TurnClosed(c)
  PROVE  TypeOK' /\ \E s \in Conns : Moves(c, s)
<1>1. PICK s \in Conns : s = co[c].on /\ s \in Slots \cup {c} /\ conn[s] \in MuxConns
  BY Here DEF TurnClosed, Runs
<1> DEFINE m == Released(conn[s])
           k == StartFails(co[c])
<1>2. co[c] \in CoStates
  BY DEF TypeOK
<1>3. /\ conn' = [conn EXCEPT ![s] = m] /\ co' = Others(c, k, {}, "none", Woken(conn[s]))
      /\ co[c].pc = "turn" /\ ~conn[s].writing
      /\ running' \in Coroutines \cup {None} /\ flight' = flight /\ freedUse' \in BOOLEAN /\ broken' \in BOOLEAN
  BY <1>1 DEF TurnClosed, Runs, TypeOK
<1>4. /\ m \in MuxConns /\ m.calls = conn[s].calls
      /\ m.epoch = conn[s].epoch /\ m.correlation = conn[s].correlation
      /\ m.open = conn[s].open /\ ~m.writing
      /\ Members(conn[s].writers) \subseteq Members(m.writers) \cup Woken(conn[s])
  BY <1>1, ReleaseWakes
<1>5. k \in CoStates /\ k.pc = "idle" /\ k.on = None /\ k.id = co[c].id /\ k.answer = co[c].answer
  BY <1>2, StartFailsFits
<1> HIDE DEF m, k
<1>6. QuietConn(c, s, m, Woken(conn[s]))
  BY <1>3, <1>4 DEF QuietConn, Writing
<1>7. QuietCo(c, s, m, k)
  BY <1>5 DEF QuietCo, Writing, Unsent
<1>8. Around(c, k, Woken(conn[s]))
  BY <1>3, <1>5, WithOthers DEF Errors
<1> QED
  BY <1>3, <1>5, <1>6, <1>7, <1>8, QuietMoves

\* The connect failed: the turn let go, and the next is woken.
LEMMA ConnectFailsMoves ==
  ASSUME TypeOK, OnOwn, NEW c \in Coroutines, ConnectFails(c)
  PROVE  TypeOK' /\ \E s \in Conns : Moves(c, s)
<1>1. PICK s \in Conns : s = co[c].on /\ s \in Slots \cup {c} /\ conn[s] \in MuxConns
  BY Here DEF ConnectFails, Runs
<1> DEFINE l == [conn[s] EXCEPT !.reading = FALSE]
           m == Released(l)
           k == StartFails(co[c])
<1>2. co[c] \in CoStates
  BY DEF TypeOK
<1>3. /\ conn' = [conn EXCEPT ![s] = m] /\ co' = Others(c, k, {}, "none", Woken(conn[s]))
      /\ co[c].pc = "connect"
      /\ running' \in Coroutines \cup {None} /\ flight' = flight /\ freedUse' \in BOOLEAN /\ broken' \in BOOLEAN
  BY <1>1 DEF ConnectFails, Runs, TypeOK
<1>4. /\ l \in MuxConns /\ l.calls = conn[s].calls /\ l.writers = conn[s].writers
      /\ l.epoch = conn[s].epoch /\ l.correlation = conn[s].correlation /\ l.open = conn[s].open
  BY <1>1 DEF MuxConns
<1> HIDE DEF l
<1>5. /\ m \in MuxConns /\ m.calls = l.calls /\ m.epoch = l.epoch /\ m.correlation = l.correlation
      /\ m.open = l.open /\ ~m.writing
      /\ Members(l.writers) \subseteq Members(m.writers) \cup Woken(l)
  BY <1>4, ReleaseWakes
<1>6. Woken(l) = Woken(conn[s])
  BY <1>4 DEF Woken
<1>7. k \in CoStates /\ k.pc = "idle" /\ k.on = None /\ k.id = co[c].id /\ k.answer = co[c].answer
  BY <1>2, StartFailsFits
<1> HIDE DEF m, k
<1>8. QuietConn(c, s, m, Woken(conn[s]))
  BY <1>1, <1>3, <1>4, <1>5, <1>6 DEF QuietConn, Writing
<1>9. QuietCo(c, s, m, k)
  BY <1>7 DEF QuietCo, Writing, Unsent
<1>10. Around(c, k, Woken(conn[s]))
  BY <1>3, <1>7, WithOthers DEF Errors
<1> QED
  BY <1>3, <1>7, <1>8, <1>9, <1>10, QuietMoves

\* muxFail: nothing is waited for any more.
LEMMA FailedFits ==
  ASSUME NEW m \in MuxConns
  PROVE  /\ Failed(m) \in MuxConns /\ ~Failed(m).open /\ Failed(m).calls = <<>>
         /\ Failed(m).epoch = m.epoch /\ Failed(m).correlation = m.correlation
         /\ Failed(m).writers = m.writers /\ Failed(m).writing = m.writing
<1>1. <<>> \in Seq([call : AllCalls, correlation : Nat])
  OBVIOUS
<1>2. Failed(m) \in MuxConns
  BY <1>1 DEF Failed, MuxConns
<1> QED
  BY <1>2 DEF Failed, MuxConns

\* The write failed: every call on the connection is done, and the turn let go.
LEMMA SendFailsMoves ==
  ASSUME TypeOK, OnOwn, NEW c \in Coroutines, SendFails(c)
  PROVE  TypeOK' /\ \E s \in Conns : Moves(c, s)
<1>1. PICK s \in Conns : s = co[c].on /\ s \in Slots \cup {c} /\ conn[s] \in MuxConns
  BY Here DEF SendFails, Runs
<1> DEFINE l == Released(conn[s])
           m == Failed(l)
           a == [co[c] EXCEPT !.pc = "get", !.attempt = 2]
           again == co[c].reused /\ co[c].attempt = 1
           k == IF again THEN a ELSE StartFails(co[c])
           failed == Callers(conn[s]) \ {c}
<1>2. co[c] \in CoStates
  BY DEF TypeOK
<1>3. /\ conn' = [conn EXCEPT ![s] = m]
      /\ co' = Others(c, k, failed, "connection closed", Woken(conn[s]))
      /\ co[c].pc = "sending"
  BY <1>1 DEF SendFails, Runs
<1>4. running' \in Coroutines \cup {None} /\ flight' = flight /\ freedUse' \in BOOLEAN /\ broken' \in BOOLEAN
  BY DEF SendFails, TypeOK
<1>5. /\ l \in MuxConns /\ l.epoch = conn[s].epoch /\ l.correlation = conn[s].correlation /\ ~l.writing
      /\ Members(conn[s].writers) \subseteq Members(l.writers) \cup Woken(conn[s])
  BY <1>1, ReleaseWakes
<1> HIDE DEF l, failed, again
<1>6. /\ m \in MuxConns /\ m.calls = <<>> /\ m.epoch = l.epoch /\ m.correlation = l.correlation
      /\ ~m.open /\ ~m.writing /\ m.writers = l.writers
  BY <1>5, FailedFits
<1>7. /\ a \in CoStates /\ a.pc = "get" /\ a.on = s /\ a.id = co[c].id /\ a.answer = co[c].answer
  BY <1>1, <1>2 DEF CoStates, Pcs
<1>8. QuietCo(c, s, m, k)
  <2>1. CASE again
    <3>1. QuietCo(c, s, m, a)
      BY <1>1, <1>3, <1>7 DEF QuietCo, Writing, Unsent
    <3> QED
      BY <2>1, <3>1
  <2>2. CASE ~again
    <3>1. QuietCo(c, s, m, StartFails(co[c]))
      BY <1>2, StartFailsFits DEF QuietCo, Writing, Unsent
    <3> QED
      BY <2>2, <3>1
  <2> QED
    BY <2>1, <2>2
<1>9. k.pc # "body" /\ k \in CoStates
  BY <1>2, <1>7, StartFailsFits
<1> HIDE DEF m, k
<1>m. Members(m.calls) = {} /\ Members(conn[s].writers) \subseteq Members(m.writers) \cup Woken(conn[s])
  BY <1>5, <1>6 DEF Members
<1>10. QuietConn(c, s, m, Woken(conn[s]))
  BY <1>1, <1>3, <1>5, <1>6, <1>m DEF QuietConn, Writing
<1>11. Around(c, k, Woken(conn[s]))
  BY <1>3, <1>9, WithOthers DEF Errors
<1> QED
  BY <1>3, <1>4, <1>8, <1>9, <1>10, <1>11, QuietMoves

\* A wait: on the connection, which stays as it is but for its read turn.
LEMMA WaitMoves ==
  ASSUME TypeOK, OnOwn, NEW c \in Coroutines, NEW s \in Conns, s = co[c].on, s \in Slots \cup {c},
         co[c].pc \in {"wait", "parked", "reading"},
         NEW reading \in BOOLEAN, conn' = [conn EXCEPT ![s].reading = reading],
         NEW k \in CoStates, co' = [co EXCEPT ![c] = k], k.pc \in {"wait", "parked", "reading"},
         k.on = co[c].on, k.id = co[c].id, k.answer = co[c].answer,
         running' \in Coroutines \cup {None}, flight' = flight, freedUse' = freedUse /\ broken' = broken
  PROVE  TypeOK' /\ \E x \in Conns : Moves(c, x)
<1> DEFINE m == [conn[s] EXCEPT !.reading = reading]
<1>1. conn' = [conn EXCEPT ![s] = m]
  BY DEF TypeOK
<1>2. conn[s] \in MuxConns
  BY DEF TypeOK
<1>3. /\ m \in MuxConns /\ m.epoch = conn[s].epoch /\ m.correlation = conn[s].correlation
      /\ m.calls = conn[s].calls /\ m.writers = conn[s].writers /\ m.open = conn[s].open
      /\ m.writing = conn[s].writing
  BY <1>2 DEF MuxConns
<1> HIDE DEF m
<1>4. QuietConn(c, s, m, {})
  BY <1>3, SameConnQuiet DEF Writing
<1>5. s # None
  BY MuxAssumption
<1>6. QuietCo(c, s, m, k)
  BY <1>5 DEF QuietCo, Writing, Unsent
<1>7. freedUse' \in BOOLEAN /\ broken' \in BOOLEAN
  BY DEF TypeOK
<1>8. Around(c, k, {})
  BY Alone
<1> QED
  BY <1>1, <1>4, <1>6, <1>7, <1>8, QuietMoves

\* Parked, as somebody else reads.
LEMMA ParkMoves ==
  ASSUME TypeOK, OnOwn, NEW c \in Coroutines, Park(c)
  PROVE  TypeOK' /\ \E s \in Conns : Moves(c, s)
<1>1. PICK s \in Conns : s = co[c].on /\ s \in Slots \cup {c} /\ conn[s] \in MuxConns
  BY Here DEF Park, Runs
<1> DEFINE k == [co[c] EXCEPT !.pc = "parked", !.ready = FALSE]
<1>2. co[c] \in CoStates /\ conn[s].reading \in BOOLEAN
  BY <1>1 DEF TypeOK, MuxConns
<1>3. co' = [co EXCEPT ![c] = k] /\ co[c].pc = "wait"
  BY DEF Park, Runs, TypeOK
<1>4. running' = None /\ flight' = flight /\ freedUse' = freedUse /\ broken' = broken /\ conn' = conn
  BY DEF Park
<1>5. conn' = [conn EXCEPT ![s].reading = conn[s].reading]
  BY <1>1, <1>4 DEF TypeOK, MuxConns
<1>p. "parked" \in Pcs /\ FALSE \in BOOLEAN
  BY DEF Pcs
<1>6. k \in CoStates /\ k.pc = "parked" /\ k.on = co[c].on /\ k.id = co[c].id /\ k.answer = co[c].answer
  BY <1>2, <1>p DEF CoStates
<1> HIDE DEF k
<1> QED
  BY <1>1, <1>2, <1>3, <1>4, <1>5, <1>6, WaitMoves

\* Woken, or past the deadline.
LEMMA UnparkMoves ==
  ASSUME TypeOK, OnOwn, NEW c \in Coroutines, Unpark(c)
  PROVE  TypeOK' /\ \E s \in Conns : Moves(c, s)
<1>1. PICK s \in Conns : s = co[c].on /\ s \in Slots \cup {c} /\ conn[s] \in MuxConns
  BY Here DEF Unpark, Runs
<1>2. co[c] \in CoStates /\ conn[s].reading \in BOOLEAN /\ co[c].pc = "parked"
  BY <1>1 DEF TypeOK, MuxConns, Unpark, Runs
<1>3. PICK expired \in BOOLEAN :
        co' = [co EXCEPT ![c] = [co[c] EXCEPT !.pc = "wait", !.ready = FALSE, !.expired = expired]]
  <2>1. CASE co' = [co EXCEPT ![c].pc = "wait", ![c].ready = FALSE]
    <3>1. co' = [co EXCEPT ![c] = [co[c] EXCEPT !.pc = "wait", !.ready = FALSE, !.expired = co[c].expired]]
      BY <1>2, <2>1 DEF TypeOK, CoStates
    <3> QED
      BY <1>2, <3>1 DEF CoStates
  <2>2. CASE co' = [co EXCEPT ![c].pc = "wait", ![c].ready = FALSE, ![c].expired = TRUE]
    BY <2>2 DEF TypeOK
  <2> QED
    BY <2>1, <2>2 DEF Unpark
<1> DEFINE k == [co[c] EXCEPT !.pc = "wait", !.ready = FALSE, !.expired = expired]
<1>4. running' = c /\ flight' = flight /\ freedUse' = freedUse /\ broken' = broken /\ conn' = conn
  BY DEF Unpark
<1>5. conn' = [conn EXCEPT ![s].reading = conn[s].reading]
  BY <1>1, <1>4 DEF TypeOK, MuxConns
<1>6. k \in CoStates /\ k.pc = "wait" /\ k.on = co[c].on /\ k.id = co[c].id /\ k.answer = co[c].answer
  <2>1. k \in CoStates
    <3>1. "wait" \in Pcs /\ FALSE \in BOOLEAN /\ expired \in BOOLEAN
      BY DEF Pcs
    <3> QED
      BY ONLY <1>2, <3>1 DEF CoStates
  <2> QED
    BY <1>2, <2>1 DEF CoStates
<1> HIDE DEF k
<1>7. co' = [co EXCEPT ![c] = k]
  BY <1>3 DEF k
<1> QED
  BY <1>1, <1>2, <1>4, <1>5, <1>6, <1>7, WaitMoves

\* The read turn taken.
LEMMA ReadTurnMoves ==
  ASSUME TypeOK, OnOwn, NEW c \in Coroutines, ReadTurn(c)
  PROVE  TypeOK' /\ \E s \in Conns : Moves(c, s)
<1>1. PICK s \in Conns : s = co[c].on /\ s \in Slots \cup {c} /\ conn[s] \in MuxConns
  BY Here DEF ReadTurn, Runs
<1> DEFINE k == [co[c] EXCEPT !.pc = "reading", !.epoch = conn[s].epoch]
<1>2. co[c] \in CoStates /\ conn[s].epoch \in Nat
  BY <1>1 DEF TypeOK, MuxConns
<1>3. co' = [co EXCEPT ![c] = k] /\ co[c].pc = "wait" /\ conn' = [conn EXCEPT ![s].reading = TRUE]
  BY <1>1 DEF ReadTurn, Runs, TypeOK
<1>4. running' = None /\ flight' = flight /\ freedUse' = freedUse /\ broken' = broken
  BY DEF ReadTurn
<1>5. k \in CoStates /\ k.pc = "reading" /\ k.on = co[c].on /\ k.id = co[c].id /\ k.answer = co[c].answer
  BY <1>2 DEF CoStates, Pcs
<1> HIDE DEF k
<1> QED
  BY <1>1, <1>3, <1>4, <1>5, WaitMoves

\* The read turn let go: nothing came.
LEMMA ReadExpiresMoves ==
  ASSUME TypeOK, OnOwn, NEW c \in Coroutines, ReadExpires(c)
  PROVE  TypeOK' /\ \E s \in Conns : Moves(c, s)
<1>1. PICK s \in Conns : s = co[c].on /\ s \in Slots \cup {c} /\ conn[s] \in MuxConns
  BY Here DEF ReadExpires, Runs
<1> DEFINE k == [co[c] EXCEPT !.pc = "wait", !.expired = TRUE]
<1>2. co[c] \in CoStates
  BY DEF TypeOK
<1>3. co' = [co EXCEPT ![c] = k] /\ co[c].pc = "reading" /\ conn' = [conn EXCEPT ![s].reading = FALSE]
  BY <1>1 DEF ReadExpires, Runs, TypeOK
<1>4. running' = c /\ flight' = flight /\ freedUse' = freedUse /\ broken' = broken
  BY DEF ReadExpires
<1>5. k \in CoStates /\ k.pc = "wait" /\ k.on = co[c].on /\ k.id = co[c].id /\ k.answer = co[c].answer
  BY <1>2 DEF CoStates, Pcs
<1> HIDE DEF k
<1> QED
  BY <1>1, <1>3, <1>4, <1>5, WaitMoves

\* A header read: its call is the one of the list with its number, or none.
LEMMA ReadHeaderMoves ==
  ASSUME TypeOK, OnOwn, NEW c \in Coroutines, ReadHeader(c)
  PROVE  TypeOK' /\ \E s \in Conns : Moves(c, s)
<1>1. PICK s \in Conns : s = co[c].on /\ s \in Slots \cup {c} /\ conn[s] \in MuxConns
  BY Here DEF ReadHeader, Runs
<1>2. co[c] \in CoStates /\ co[c].pc = "reading" /\ conn' = conn /\ running' = None
  BY DEF ReadHeader, Runs, TypeOK
<1>3. PICK f \in flight :
        /\ f.on = co[c].on /\ f.epoch = conn[co[c].on].epoch
        /\ LET mine == {i \in DOMAIN conn[co[c].on].calls :
                          conn[co[c].on].calls[i].correlation = f.correlation}
               target == IF mine = {} THEN NoCall ELSE conn[co[c].on].calls[Min(mine)].call
           IN co' = [co EXCEPT ![c].pc = "body", ![c].frame = f.call, ![c].target = target]
        /\ flight' = flight \ {f}
  BY DEF ReadHeader
<1> DEFINE mine == {i \in DOMAIN conn[s].calls : conn[s].calls[i].correlation = f.correlation}
           target == IF mine = {} THEN NoCall ELSE conn[s].calls[Min(mine)].call
<1>4. f.call \in AllCalls
  BY DEF TypeOK, Requests
<1>5. /\ target \in AllCalls \cup {NoCall}
      /\ target = NoCall \/ \E e \in Members(conn[s].calls) : e.correlation = f.correlation /\ target = e.call
  <2>1. conn[s].calls \in Seq([call : AllCalls, correlation : Nat])
    BY <1>1 DEF MuxConns
  <2>2. CASE mine # {}
    <3>1. mine \subseteq Nat
      BY <2>1, LenProperties
    <3>2. Min(mine) \in mine
      <4> HIDE DEF mine
      <4> QED
        BY <2>2, <3>1, MinIsIn
    <3>3. PICK i \in DOMAIN conn[s].calls : i = Min(mine) /\ conn[s].calls[i].correlation = f.correlation
      BY <3>2
    <3>4. target = conn[s].calls[i].call
      BY <2>2, <3>3
    <3>5. conn[s].calls[i] \in [call : AllCalls, correlation : Nat]
      BY <2>1, ElementOfSeq, LenProperties
    <3> QED
      BY <3>3, <3>4, <3>5 DEF Members
  <2> QED
    BY <2>2
<1>6. /\ co' = [co EXCEPT ![c].pc = "body", ![c].frame = f.call, ![c].target = target]
      /\ f.on = s /\ f.epoch = conn[s].epoch /\ flight' = flight \ {f}
  BY <1>1, <1>3
<1> HIDE DEF target
<1> DEFINE k == [co[c] EXCEPT !.pc = "body", !.frame = f.call, !.target = target]
<1>7. co' = [co EXCEPT ![c] = k]
  BY <1>6 DEF TypeOK
<1>8. /\ k \in CoStates /\ k.pc = "body" /\ k.on = s /\ k.id = co[c].id /\ k.answer = co[c].answer
      /\ k.frame = f.call /\ k.target = target
  <2>1. "body" \in Pcs
    BY DEF Pcs
  <2>2. k \in CoStates
    BY <1>2, <1>4, <1>5, <2>1 DEF CoStates
  <2> QED
    BY <1>1, <1>2, <2>2 DEF CoStates
<1> HIDE DEF k
<1>9. Around(c, k, {})
  BY <1>7, <1>8, Alone
<1>10. QuietConn(c, s, conn[s], {})
  BY <1>1, <1>2, SameConnQuiet DEF Writing
<1>11. QuietCo(c, s, conn[s], k)
  BY <1>1, <1>8, MuxAssumption DEF QuietCo, Writing, Unsent
<1>12. Reads(c, s)
  <2>1. co'[c].frame = f.call /\ co'[c].target = target
    BY <1>8, <1>9 DEF Around, Same
  <2> QED
    BY <1>1, <1>3, <1>5, <1>6, <2>1 DEF Reads
<1>13. conn' = [conn EXCEPT ![s] = conn[s]]
  BY <1>2 DEF TypeOK
<1>14. running' \in Coroutines \cup {None} /\ flight' \subseteq flight /\ freedUse' \in BOOLEAN /\ broken' \in BOOLEAN
  BY <1>2, <1>6 DEF ReadHeader, TypeOK
<1> QED
  BY <1>9, <1>10, <1>11, <1>12, <1>13, <1>14, QuietMoves

\* Back at the top of the wait.
LEMMA BackFits ==
  ASSUME TypeOK, NEW c \in Coroutines
  PROVE  LET b == [co[c] EXCEPT !.pc = "wait", !.target = NoCall, !.frame = NoCall]
         IN /\ b \in CoStates /\ b.pc = "wait" /\ b.on = co[c].on /\ b.id = co[c].id
            /\ b.answer = co[c].answer
<1> DEFINE b == [co[c] EXCEPT !.pc = "wait", !.target = NoCall, !.frame = NoCall]
<1>1. co[c] \in CoStates /\ "wait" \in Pcs
  BY DEF TypeOK, Pcs
<1>2. b \in CoStates
  BY <1>1 DEF CoStates
<1> QED
  BY <1>1, <1>2 DEF CoStates

\* The connection failed by its reader, or by one that waits in its place.
LEMMA FailingMoves ==
  ASSUME TypeOK, NEW c \in Coroutines, NEW s \in Conns, s = co[c].on, s \in Slots \cup {c},
         co[c].pc \in {"reading", "body"},
         conn' = [conn EXCEPT ![s] = [Failed(@) EXCEPT !.reading = FALSE]],
         NEW k \in CoStates, k.pc = "wait", k.on = s, k.id = co[c].id, k.answer = co[c].answer,
         Around(c, k, {}),
         running' = c, flight' = flight, freedUse' \in BOOLEAN /\ broken' \in BOOLEAN
  PROVE  TypeOK' /\ \E x \in Conns : Moves(c, x)
<1> DEFINE l == Failed(conn[s])
           m == [l EXCEPT !.reading = FALSE]
<1>1. conn[s] \in MuxConns
  BY DEF TypeOK
<1>2. /\ l \in MuxConns /\ ~l.open /\ l.calls = <<>> /\ l.epoch = conn[s].epoch
      /\ l.correlation = conn[s].correlation /\ l.writers = conn[s].writers /\ l.writing = conn[s].writing
  BY <1>1, FailedFits
<1>3. conn' = [conn EXCEPT ![s] = m]
  BY DEF TypeOK
<1> HIDE DEF l
<1>4. /\ m \in MuxConns /\ ~m.open /\ m.calls = <<>> /\ m.epoch = l.epoch
      /\ m.correlation = l.correlation /\ m.writers = l.writers /\ m.writing = l.writing
  BY <1>2 DEF MuxConns
<1> HIDE DEF m
<1>5. Members(m.calls) = {} /\ Members(m.writers) = Members(conn[s].writers)
  BY <1>2, <1>4 DEF Members
<1>6. QuietConn(c, s, m, {})
  BY <1>2, <1>4, <1>5 DEF QuietConn, Writing
<1>7. QuietCo(c, s, m, k)
  BY MuxAssumption DEF QuietCo, Writing, Unsent
<1>8. running' \in Coroutines \cup {None} /\ flight' \subseteq flight
  OBVIOUS
<1> QED
  BY <1>3, <1>6, <1>7, <1>8, QuietMoves

\* muxFail by the reader: every call on the connection is done.
LEMMA ReaderFailsMoves ==
  ASSUME TypeOK, OnOwn, NEW c \in Coroutines, co[c].pc \in {"reading", "body"},
         NEW error \in Errors, NEW timedOut \in BOOLEAN, ReaderFails(c, error, timedOut)
  PROVE  TypeOK' /\ \E s \in Conns : Moves(c, s)
<1>1. PICK s \in Conns : s = co[c].on /\ s \in Slots \cup {c} /\ conn[s] \in MuxConns
  BY Here
<1> DEFINE b == [co[c] EXCEPT !.pc = "wait", !.target = NoCall, !.frame = NoCall]
           failed == Callers(conn[s])
<1>2. /\ b \in CoStates /\ b.pc = "wait" /\ b.on = s /\ b.id = co[c].id /\ b.answer = co[c].answer
  BY <1>1, BackFits
<1> HIDE DEF b
<1>3. PICK o : o = Others(c, b, failed, error, {})
  OBVIOUS
<1>4. AreOthers(o, c, b, failed, {})
  BY <1>2, <1>3, OthersAre
<1>5. co' = [o EXCEPT ![c].timedOut = @ \/ (timedOut /\ c \in failed)]
  BY <1>1, <1>3 DEF ReaderFails, b
<1>6. PICK w \in BOOLEAN : co' = [o EXCEPT ![c].timedOut = w]
  <2>1. (o[c].timedOut \/ (timedOut /\ c \in failed)) \in BOOLEAN
    BY <1>4 DEF AreOthers, CoStates
  <2> QED
    BY <1>5, <2>1
<1> HIDE DEF failed
<1> DEFINE k == [o[c] EXCEPT !.timedOut = w]
<1>7. o \in [Coroutines -> CoStates] /\ o[c] \in CoStates
  BY <1>4 DEF AreOthers
<1>8. k \in CoStates /\ Same(k, o[c]) /\ k.answer = o[c].answer
  BY <1>7 DEF CoStates, Same
<1>9. co' = [o EXCEPT ![c] = k]
  BY <1>6, <1>7
<1> HIDE DEF k
<1>10. co' \in [Coroutines -> CoStates] /\ co'[c] = k /\ \A d \in Coroutines \ {c} : co'[d] = o[d]
  BY <1>7, <1>8, <1>9
<1>11. Around(c, k, {})
  BY <1>4, <1>10 DEF AreOthers, Around, Same
<1>12. k.pc = "wait" /\ k.on = s /\ k.id = co[c].id /\ k.answer = co[c].answer
  BY <1>2, <1>4, <1>8 DEF AreOthers, Same
<1>13. /\ conn' = [conn EXCEPT ![s] = [Failed(@) EXCEPT !.reading = FALSE]]
       /\ running' = c /\ flight' = flight /\ freedUse' \in BOOLEAN /\ broken' \in BOOLEAN
  BY <1>1 DEF ReaderFails, TypeOK
<1> QED
  BY <1>1, <1>8, <1>11, <1>12, <1>13, FailingMoves

\* The header does not come.
LEMMA ReadHeaderFailsMoves ==
  ASSUME TypeOK, OnOwn, NEW c \in Coroutines, ReadHeaderFails(c)
  PROVE  TypeOK' /\ \E s \in Conns : Moves(c, s)
  BY ReaderFailsMoves DEF ReadHeaderFails, Runs, Errors

\* The body does not come.
LEMMA ReadBodyFailsMoves ==
  ASSUME TypeOK, OnOwn, NEW c \in Coroutines, ReadBodyFails(c)
  PROVE  TypeOK' /\ \E s \in Conns : Moves(c, s)
  BY ReaderFailsMoves DEF ReadBodyFails, Runs, Errors

\* The wait fails, as the loop stops.
LEMMA WaitFailsMoves ==
  ASSUME TypeOK, OnOwn, NEW c \in Coroutines, WaitFails(c)
  PROVE  TypeOK' /\ \E s \in Conns : Moves(c, s)
<1>1. PICK s \in Conns : s = co[c].on /\ s \in Slots \cup {c} /\ conn[s] \in MuxConns
  BY Here DEF WaitFails, Runs
<1> DEFINE k == [co[c] EXCEPT !.pc = "wait", !.expired = TRUE]
           failed == Callers(conn[s])
<1>2. co[c] \in CoStates /\ co[c].pc = "reading"
  BY DEF TypeOK, WaitFails, Runs
<1>3. k \in CoStates /\ k.pc = "wait" /\ k.on = s /\ k.id = co[c].id /\ k.answer = co[c].answer
  BY <1>1, <1>2 DEF CoStates, Pcs
<1>4. /\ co' = Others(c, k, failed, "no wait for the response", {})
      /\ conn' = [conn EXCEPT ![s] = [Failed(@) EXCEPT !.reading = FALSE]]
      /\ running' = c /\ flight' = flight /\ freedUse' \in BOOLEAN /\ broken' \in BOOLEAN
  BY <1>1 DEF WaitFails, TypeOK
<1> HIDE DEF k, failed
<1>5. Around(c, k, {})
  BY <1>3, <1>4, WithOthers DEF Errors
<1> QED
  BY <1>1, <1>2, <1>3, <1>4, <1>5, FailingMoves

\* The call over: out of the list, and the coroutine at the next call or at none.
LEMMA WaitEndMoves ==
  ASSUME TypeOK, OnOwn, NEW c \in Coroutines, WaitEnd(c)
  PROVE  TypeOK' /\ \E s \in Conns : Moves(c, s)
<1>1. PICK s \in Conns : s = co[c].on /\ s \in Slots \cup {c} /\ conn[s] \in MuxConns
  BY Here DEF WaitEnd, Runs
<1> DEFINE error == IF co[c].done THEN co[c].error ELSE "timed out"
           q == IF co[c].done THEN conn[s].calls ELSE Without(conn[s].calls, Call(c))
           l == [conn[s] EXCEPT !.calls = q]
           m == IF s = c /\ l.calls = <<>> THEN [l EXCEPT !.open = FALSE] ELSE l
           retried == error = "connection closed" /\ co[c].reused /\ co[c].try = 1
           after == [co[c] EXCEPT !.live = FALSE, !.on = None, !.ready = FALSE, !.done = TRUE,
                                  !.error = error, !.pc = "idle"]
           k == IF retried THEN [FreshCall(after) EXCEPT !.try = 2] ELSE after
<1>2. co[c] \in CoStates
  BY DEF TypeOK
<1>3. error \in Errors
  BY <1>2 DEF CoStates, Errors
<1>4. /\ q \in Seq(Entries) /\ Members(q) \subseteq Members(conn[s].calls)
      /\ \A e \in Members(conn[s].calls) : e.call # Call(c) => e \in Members(q)
  <2>1. conn[s].calls \in Seq(Entries)
    BY <1>1 DEF MuxConns, Entries
  <2> QED
    BY <2>1, WithoutOne
<1>5. conn[s].calls = <<>> => q = <<>>
  <2>1. ASSUME conn[s].calls = <<>> PROVE Without(conn[s].calls, Call(c)) = <<>>
    BY <2>1 DEF Without
  <2> QED
    BY <2>1
<1>6. /\ conn' = [conn EXCEPT ![s] = m]
      /\ co' = Others(c, k, {}, "none", HandedTo(l)) /\ co[c].pc = "wait"
      /\ running' \in Coroutines \cup {None} /\ flight' = flight /\ freedUse' = freedUse /\ broken' = broken
  <2>1. l = [conn[s] EXCEPT !.calls = IF co[c].done THEN @ ELSE Without(@, Call(c))]
    OBVIOUS
  <2> HIDE DEF q
  <2>2. /\ conn' = [conn EXCEPT ![s] = m] /\ co[c].pc = "wait"
    BY <1>1, <2>1, ZenonT(30) DEF WaitEnd, Runs
  <2>3. co' = Others(c, k, {}, "none", HandedTo(l))
    BY <1>1, <2>1 DEF WaitEnd
  <2> QED
    BY <2>2, <2>3 DEF WaitEnd
<1>7. q \in Seq([call : AllCalls, correlation : Nat])
  BY <1>4 DEF Entries
<1> HIDE DEF q, error
<1>8. /\ l \in MuxConns /\ l.calls = q /\ l.epoch = conn[s].epoch /\ l.correlation = conn[s].correlation
      /\ l.writers = conn[s].writers /\ l.open = conn[s].open /\ l.writing = conn[s].writing
  BY <1>1, <1>7 DEF MuxConns
<1> DEFINE w == HandedTo(l)
<1> HIDE DEF l, w
<1>10. /\ m \in MuxConns /\ m.calls = q /\ m.epoch = conn[s].epoch /\ m.correlation = conn[s].correlation
       /\ m.writers = conn[s].writers /\ m.writing = conn[s].writing /\ (m.open => conn[s].open)
  <2>1. CASE s = c /\ l.calls = <<>>
    <3>1. m = [l EXCEPT !.open = FALSE]
      BY <2>1
    <3> QED
      BY <1>8, <3>1 DEF MuxConns
  <2>2. CASE ~(s = c /\ l.calls = <<>>)
    BY <1>8, <2>2
  <2> QED
    BY <2>1, <2>2
<1>11. /\ after \in CoStates /\ after.pc = "idle" /\ after.on = None /\ after.id = co[c].id
       /\ after.answer = co[c].answer
  <2>1. "idle" \in Pcs
    BY DEF Pcs
  <2>2. after \in CoStates
    BY <1>2, <1>3, <2>1 DEF CoStates
  <2> QED
    BY <1>2, <2>2 DEF CoStates
<1> HIDE DEF m, retried, after
<1>12. QuietCo(c, s, m, k) /\ k \in CoStates /\ k.pc # "body"
  <2>1. CASE retried
    <3> DEFINE f == FreshCall(after)
    <3>1. /\ f \in CoStates /\ f.pc = "get" /\ f.id = co[c].id + 1 /\ f.on = None /\ f.answer = NoCall
      BY <1>11, FreshFits
    <3> HIDE DEF f
    <3> DEFINE g == [f EXCEPT !.try = 2]
    <3>2. /\ g \in CoStates /\ g.pc = "get" /\ g.id = co[c].id + 1 /\ g.on = None /\ g.answer = NoCall
      BY <3>1 DEF CoStates
    <3>3. k = g
      BY <2>1 DEF f
    <3> HIDE DEF g
    <3> QED
      BY <3>2, <3>3 DEF QuietCo, Writing
  <2>2. CASE ~retried
    <3>1. k = after
      BY <2>2
    <3> HIDE DEF k
    <3> QED
      BY <1>11, <3>1 DEF QuietCo, Writing, Unsent
  <2> QED
    BY <2>1, <2>2
<1> HIDE DEF k
<1>13. QuietConn(c, s, m, w)
  <2>1. ASSUME NEW d \in Coroutines \ {c}, NEW e \in Members(conn[s].calls), e.call = Call(d)
        PROVE  e \in Members(m.calls)
    <3>1. e.call # Call(c)
      BY <2>1 DEF Call
    <3> QED
      BY <1>4, <1>10, <3>1
  <2> QED
    BY <1>4, <1>5, <1>6, <1>10, <2>1 DEF QuietConn, Writing
<1>14. Around(c, k, w)
  BY <1>6, <1>12, WithOthers DEF Errors, w
<1>15. freedUse' \in BOOLEAN /\ broken' \in BOOLEAN /\ flight' \subseteq flight
  BY <1>6 DEF TypeOK
<1> QED
  BY <1>6, <1>12, <1>13, <1>14, <1>15, QuietMoves

\* The answer in: into the memory of its call, which leaves the list.
LEMMA ReadBodyMoves ==
  ASSUME TypeOK, OnOwn, FrameOfTarget, AnswersFollow, NEW c \in Coroutines, ReadBody(c)
  PROVE  TypeOK' /\ \E s \in Conns : Moves(c, s)
<1>1. PICK s \in Conns : s = co[c].on /\ s \in Slots \cup {c} /\ conn[s] \in MuxConns
  BY Here DEF ReadBody, Runs
<1> DEFINE t == co[c].target
           d == t.co
           b == [co[c] EXCEPT !.pc = "wait", !.target = NoCall, !.frame = NoCall]
           q == IF t = NoCall THEN conn[s].calls ELSE Without(conn[s].calls, t)
           m == [conn[s] EXCEPT !.reading = FALSE, !.calls = q]
<1>2. /\ b \in CoStates /\ b.pc = "wait" /\ b.on = s /\ b.id = co[c].id /\ b.answer = co[c].answer
  BY <1>1, BackFits
<1>3. co[c] \in CoStates /\ co[c].pc = "body" /\ t \in AllCalls \cup {NoCall}
  BY DEF TypeOK, ReadBody, Runs, CoStates
<1>4. t # NoCall => co[c].frame = t
  BY <1>3 DEF FrameOfTarget
<1>5. /\ q \in Seq(Entries) /\ Members(q) \subseteq Members(conn[s].calls)
      /\ \A e \in Members(conn[s].calls) : e.call # t => e \in Members(q)
  <2>1. conn[s].calls \in Seq(Entries)
    BY <1>1 DEF MuxConns, Entries
  <2> QED
    BY <2>1, WithoutOne
<1>6. conn[s].calls = <<>> => q = <<>>
  <2>1. ASSUME conn[s].calls = <<>> PROVE Without(conn[s].calls, t) = <<>>
    BY <2>1 DEF Without
  <2> QED
    BY <2>1
<1>7. q \in Seq([call : AllCalls, correlation : Nat])
  BY <1>5 DEF Entries
<1>8. /\ conn' = [conn EXCEPT ![s] = m]
      /\ running' = c /\ flight' = flight /\ freedUse' \in BOOLEAN /\ broken' \in BOOLEAN
  <2>1. m = [conn[s] EXCEPT !.reading = FALSE, !.calls = IF t = NoCall THEN @ ELSE Without(@, t)]
    OBVIOUS
  <2>2. conn' = [conn EXCEPT ![s].reading = FALSE, ![s].calls = IF t = NoCall THEN @ ELSE Without(@, t)]
    BY <1>1 DEF ReadBody
  <2>3. conn' = [conn EXCEPT ![s] = m]
    BY <2>1, <2>2 DEF TypeOK
  <2> HIDE DEF q, m
  <2> QED
    BY <1>1, <2>3 DEF ReadBody, TypeOK
<1>9. \/ co' = [co EXCEPT ![c] = b]
      \/ t # NoCall /\ Live(t) /\ co' = [Others(c, b, {d}, "none", {}) EXCEPT ![d].answer = co[c].frame]
  BY DEF ReadBody
<1> HIDE DEF b, q
<1>10. /\ m \in MuxConns /\ m.calls = q /\ m.epoch = conn[s].epoch /\ m.correlation = conn[s].correlation
       /\ m.writers = conn[s].writers /\ m.writing = conn[s].writing /\ m.open = conn[s].open
  BY <1>1, <1>7 DEF MuxConns
<1> HIDE DEF m
<1>11. QuietConn(c, s, m, {})
  <2>1. ASSUME NEW x \in Coroutines \ {c}, co[x].pc = "sending",
               NEW e \in Members(conn[s].calls), e.call = Call(x)
        PROVE  e \in Members(m.calls)
    <3>1. t # Call(x)
      <4>1. SUFFICES ASSUME t = Call(x) PROVE FALSE
        OBVIOUS
      <4>2. t.co = x /\ t.id = co[x].id
        BY <4>1 DEF Call
      <4>3. t # NoCall
        BY <4>2, MuxAssumption DEF NoCall, Conns
      <4>4. co[c].frame.co = x /\ co[c].frame.id = co[x].id
        BY <1>4, <4>2, <4>3
      <4>5. co[c].frame.id < co[x].id
        BY <1>3, <2>1, <4>4 DEF AnswersFollow, Unsent
      <4> QED
        BY <4>4, <4>5 DEF TypeOK, CoStates
    <3> QED
      BY <1>5, <1>10, <2>1, <3>1
  <2> QED
    BY <1>3, <1>5, <1>6, <1>10, <2>1 DEF QuietConn, Writing
<1> DEFINE Back(k) == /\ Around(c, k, {}) /\ k.pc = "wait" /\ k.on = s /\ k.id = co[c].id
                      /\ k.answer = co[c].answer \/ k.answer = Call(c)
<1>12. \E k \in CoStates : Back(k)
  <2>1. CASE co' = [co EXCEPT ![c] = b]
    BY <1>2, <2>1, Alone
  <2>2. ASSUME t # NoCall, Live(t),
               co' = [Others(c, b, {d}, "none", {}) EXCEPT ![d].answer = co[c].frame]
        PROVE  \E k \in CoStates : Back(k)
    <3>1. PICK o : o = Others(c, b, {d}, "none", {})
      OBVIOUS
    <3>2. AreOthers(o, c, b, {d}, {})
      BY <1>2, <3>1, OthersAre DEF Errors
    <3>3. d \in Coroutines /\ co[c].frame = t /\ t = Call(d) /\ t \in AllCalls
      BY <1>3, <1>4, <2>2 DEF AllCalls, Live, Call
    <3>4. o \in [Coroutines -> CoStates] /\ o[d] \in CoStates
      BY <3>2, <3>3 DEF AreOthers
    <3> DEFINE n == [o[d] EXCEPT !.answer = t]
    <3>5. co' = [o EXCEPT ![d] = n]
      BY <2>2, <3>1, <3>3, <3>4
    <3>6. n \in CoStates /\ Same(n, o[d]) /\ n.ready = o[d].ready /\ n.answer = t
      BY <3>3, <3>4 DEF CoStates, Same
    <3> HIDE DEF n
    <3>7. co' \in [Coroutines -> CoStates] /\ co'[d] = n /\ \A x \in Coroutines \ {d} : co'[x] = o[x]
      BY <3>3, <3>4, <3>5, <3>6
    <3> HIDE DEF t, d
    <3>8. CASE d = c
      <4>1. /\ n.pc = "wait" /\ n.on = s /\ n.id = co[c].id /\ n.answer = Call(c)
        BY <1>2, <3>2, <3>3, <3>6, <3>8 DEF AreOthers, Same
      <4>2. Around(c, n, {})
        BY <3>2, <3>7, <3>8 DEF AreOthers, Around, Same
      <4> QED
        BY <3>6, <4>1, <4>2
    <3>9. CASE d # c
      <4>1. o[c] \in CoStates /\ co'[c] = o[c]
        BY <3>4, <3>7, <3>9
      <4>2. /\ o[c].pc = "wait" /\ o[c].on = s /\ o[c].id = co[c].id /\ o[c].answer = co[c].answer
        BY <1>2, <3>2 DEF AreOthers, Same
      <4>3. ASSUME NEW x \in Coroutines \ {c}
            PROVE  /\ Same(co'[x], co[x]) /\ (co[x].ready => co'[x].ready)
                   /\ co'[x].answer = co[x].answer \/ co'[x].answer = Call(x)
        <5>1. CASE x = d
          BY <3>2, <3>3, <3>6, <3>7, <5>1 DEF AreOthers, Same
        <5>2. CASE x # d
          BY <3>2, <3>7, <5>2 DEF AreOthers
        <5> QED
          BY <5>1, <5>2
      <4>4. Around(c, o[c], {})
        BY <3>7, <4>1, <4>3 DEF Around, Same
      <4> QED
        BY <4>1, <4>2, <4>4
    <3> QED
      BY <3>8, <3>9
  <2> QED
    BY <1>9, <2>1, <2>2
<1>13. PICK k \in CoStates : Back(k)
  BY <1>12
<1>14. QuietCo(c, s, m, k)
  BY <1>1, <1>13, MuxAssumption DEF QuietCo, Writing, Unsent
<1>15. running' \in Coroutines \cup {None} /\ flight' \subseteq flight
  BY <1>8
<1> QED
  BY <1>8, <1>11, <1>13, <1>14, <1>15, QuietMoves

\* A connection named, both turns taken: a slot that nobody uses, or a new one.
LEMMA GetConnectMoves ==
  ASSUME TypeOK, OnOwn, WriteTurnHeld, NEW c \in Coroutines, GetConnect(c)
  PROVE  TypeOK' /\ \E s \in Conns : Moves(c, s)
<1>1. PICK s \in Conns :
        /\ s = IF Free # {} THEN Min(Free) ELSE IF Idle # {} THEN Min(Idle) ELSE c
        /\ s \in Slots \cup {c} /\ (conn[s].calls = <<>> \/ s = c) /\ ~conn[s].writing
  <2>1. Free \subseteq Nat /\ Idle \subseteq Nat
    BY DEF Free, Idle, Slots
  <2>2. CASE Free # {}
    <3>1. Min(Free) \in Free
      BY <2>1, <2>2, MinIsIn
    <3> QED
      BY <2>2, <3>1 DEF Free, Conns
  <2>3. CASE Free = {} /\ Idle # {}
    <3>1. Min(Idle) \in Idle
      BY <2>1, <2>3, MinIsIn
    <3> QED
      BY <2>3, <3>1 DEF Idle, Conns
  <2>4. CASE Free = {} /\ Idle = {}
    <3>1. c \in Conns /\ c \notin Slots
      BY MuxAssumption DEF Conns
    <3>2. ~conn[c].writing
      <4>1. SUFFICES ASSUME NEW d \in Coroutines, co[d].pc \in {"sending", "connect"}, co[d].on = c
                     PROVE  FALSE
        BY <3>1 DEF WriteTurnHeld
      <4>2. d = c
        BY <3>1, <4>1, MuxAssumption DEF OnOwn
      <4> QED
        BY <4>1, <4>2 DEF GetConnect, Runs
    <3> QED
      BY <2>4, <3>1, <3>2
  <2> QED
    BY <2>2, <2>3, <2>4
<1> DEFINE m == [conn[s] EXCEPT !.open = FALSE, !.peer = co[c].want, !.calls = <<>>,
                                !.writing = TRUE, !.reading = TRUE]
           k == [co[c] EXCEPT !.pc = "connect", !.on = s]
<1>2. conn[s] \in MuxConns /\ co[c] \in CoStates
  BY DEF TypeOK
<1>3. /\ conn' = [conn EXCEPT ![s].open = FALSE, ![s].peer = co[c].want,
                              ![s].calls = <<>>, ![s].writing = TRUE, ![s].reading = TRUE]
      /\ co' = [co EXCEPT ![c].pc = "connect", ![c].on = s] /\ co[c].pc = "get"
      /\ running' = None /\ flight' = flight /\ freedUse' = freedUse /\ broken' = broken
  BY <1>1 DEF GetConnect, Runs
<1>4. conn' = [conn EXCEPT ![s] = m] /\ co' = [co EXCEPT ![c] = k]
  BY <1>3 DEF TypeOK
<1>5. /\ m \in MuxConns /\ m.calls = <<>> /\ m.epoch = conn[s].epoch /\ m.correlation = conn[s].correlation
      /\ m.writers = conn[s].writers /\ m.writing
  <2>1. <<>> \in Seq([call : AllCalls, correlation : Nat]) /\ co[c].want \in Peers \cup {None}
    BY <1>2 DEF CoStates
  <2>2. m \in MuxConns
    BY <1>2, <2>1 DEF MuxConns
  <2> QED
    BY <1>2, <2>2 DEF MuxConns
<1>6. k \in CoStates /\ k.pc = "connect" /\ k.on = s /\ k.id = co[c].id /\ k.answer = co[c].answer
  BY <1>2 DEF CoStates, Pcs
<1> HIDE DEF m, k
<1>7. Around(c, k, {})
  BY <1>4, <1>6, Alone
<1>8. TypeOK' /\ Beside(c, s) /\ conn'[s] = m
  <2>1. /\ running' \in Coroutines \cup {None} /\ flight' \subseteq Requests
        /\ freedUse' \in BOOLEAN /\ broken' \in BOOLEAN
        /\ Members(conn[s].writers) \subseteq Members(m.writers) \cup {}
    BY <1>3, <1>5 DEF TypeOK
  <2> QED
    BY <1>4, <1>5, <1>6, <1>7, <2>1, KeepsOthers
<1>9. co'[c].pc = "connect" /\ co'[c].on = s /\ co'[c].id = co[c].id /\ co'[c].answer = co[c].answer
  BY <1>6, <1>7 DEF Around, Same
<1>10. Takes(c, s) /\ Names(c, s)
  BY <1>1, <1>3, <1>5, <1>8, <1>9 DEF Takes, Names, Writing
<1>11. Itself(c, s)
  BY <1>1, <1>3, <1>9, MuxAssumption DEF Itself, Unsent
<1> QED
  BY <1>8, <1>10, <1>11 DEF Moves

\* Connected: the numbers start anew, and the call is the first.
LEMMA ConnectedMoves ==
  ASSUME TypeOK, OnOwn, NEW c \in Coroutines, Connected(c)
  PROVE  TypeOK' /\ \E s \in Conns : Moves(c, s)
<1>1. PICK s \in Conns : s = co[c].on /\ s \in Slots \cup {c} /\ conn[s] \in MuxConns
  BY Here DEF Connected, Runs
<1> DEFINE n == [conn[s] EXCEPT !.open = TRUE, !.epoch = @ + 1, !.reading = FALSE, !.correlation = 0]
           m == Linked(c, n)
           k == Sending(co[c], s, n, FALSE)
<1>2. co[c] \in CoStates
  BY DEF TypeOK
<1>3. /\ conn' = [conn EXCEPT ![s] = m] /\ co' = [co EXCEPT ![c] = k] /\ co[c].pc = "connect"
      /\ running' \in Coroutines \cup {None} /\ flight' = flight /\ freedUse' = freedUse /\ broken' = broken
  BY <1>1 DEF Connected, Runs, TypeOK
<1>4. /\ n \in MuxConns /\ n.calls = conn[s].calls /\ n.epoch = conn[s].epoch + 1 /\ n.correlation = 0
      /\ n.writers = conn[s].writers /\ n.writing = conn[s].writing
  <2>1. conn[s].epoch + 1 \in Nat /\ 0 \in Nat
    BY <1>1 DEF MuxConns
  <2>2. n \in MuxConns
    BY <1>1, <2>1 DEF MuxConns
  <2> QED
    BY <1>1, <2>2 DEF MuxConns
<1> HIDE DEF n
<1>5. /\ m \in MuxConns /\ m.correlation = 1 /\ m.epoch = n.epoch /\ m.writers = n.writers
      /\ m.writing = n.writing
      /\ m.calls = <<[call |-> Call(c), correlation |-> 1]>> \o conn[s].calls
  <2>1. n.correlation + 1 = 1
    BY <1>4
  <2> QED
    BY <1>4, <2>1, LinkedFits
<1>6. /\ k \in CoStates /\ k.pc = "sending" /\ k.on = s /\ k.epoch = n.epoch /\ k.id = co[c].id
      /\ k.answer = co[c].answer
  BY <1>2, <1>4, SendingFits
<1> HIDE DEF m, k
<1>7. Around(c, k, {})
  BY <1>3, <1>6, Alone
<1>8. TypeOK' /\ Beside(c, s) /\ conn'[s] = m
  <2>1. /\ flight' \subseteq Requests /\ freedUse' \in BOOLEAN /\ broken' \in BOOLEAN
        /\ Members(conn[s].writers) \subseteq Members(m.writers) \cup {}
    BY <1>3, <1>4, <1>5 DEF TypeOK
  <2> QED
    BY <1>3, <1>5, <1>6, <1>7, <2>1, KeepsOthers, ZenonT(30)
<1>9. /\ co'[c].pc = "sending" /\ co'[c].on = s /\ co'[c].epoch = n.epoch /\ co'[c].id = co[c].id
      /\ co'[c].answer = co[c].answer
  BY <1>6, <1>7 DEF Around, Same
<1>10. KeepsTurn(c, s) /\ Opens(c, s)
  BY <1>1, <1>3, <1>4, <1>5, <1>8, <1>9 DEF KeepsTurn, Opens, LinksTo, Writing
<1>11. Itself(c, s)
  BY <1>1, <1>3, <1>9, MuxAssumption DEF Itself, Unsent
<1> QED
  BY <1>8, <1>10, <1>11 DEF Moves

\* Written whole: the turn let go, and the request on its way.
LEMMA SentMoves ==
  ASSUME TypeOK, OnOwn, SendingLinked, NEW c \in Coroutines, Sent(c)
  PROVE  TypeOK' /\ \E s \in Conns : Moves(c, s)
<1>1. PICK s \in Conns : s = co[c].on /\ s \in Slots \cup {c} /\ conn[s] \in MuxConns
  BY Here DEF Sent, Runs
<1> DEFINE m == Released(conn[s])
           k == [co[c] EXCEPT !.pc = "wait"]
           r == [call |-> Call(c), peer |-> conn[s].peer, on |-> s, epoch |-> co[c].epoch,
                 correlation |-> Sequence(c)]
<1>2. co[c] \in CoStates
  BY DEF TypeOK
<1>3. /\ conn' = [conn EXCEPT ![s] = m] /\ co' = Others(c, k, {}, "none", Woken(conn[s]))
      /\ co[c].pc = "sending" /\ conn[s].open /\ conn[s].epoch = co[c].epoch
      /\ running' = c /\ flight' = flight \cup {r} /\ freedUse' = freedUse /\ broken' = broken
  BY <1>1 DEF Sent, Runs
<1>4. Sequence(c) \in Nat
  <2>1. \E e \in Members(conn[s].calls) : e.call = Call(c)
    BY <1>1, <1>3 DEF SendingLinked
  <2>2. PICK e \in Members(conn[s].calls) : e.call = Call(c) /\ Sequence(c) = e.correlation
    BY <1>1, <2>1 DEF Sequence
  <2>3. conn[s].calls \in Seq(Entries)
    BY <1>1 DEF MuxConns, Entries
  <2>4. e \in Entries
    BY <2>3, ElementOfSeq, LenProperties DEF Members
  <2> QED
    BY <2>2, <2>4 DEF Entries
<1>5. r \in Requests
  <2>1. Call(c) \in AllCalls /\ conn[s].peer \in Peers \cup {None} /\ co[c].epoch \in Nat
    BY <1>1, <1>2 DEF Call, AllCalls, CoStates, MuxConns
  <2> QED
    BY <1>4, <2>1 DEF Requests
<1>6. /\ m \in MuxConns /\ m.calls = conn[s].calls
      /\ m.epoch = conn[s].epoch /\ m.correlation = conn[s].correlation
      /\ m.open = conn[s].open /\ ~m.writing
      /\ Members(conn[s].writers) \subseteq Members(m.writers) \cup Woken(conn[s])
  BY <1>1, ReleaseWakes
<1>7. k \in CoStates /\ k.pc = "wait" /\ k.on = s /\ k.id = co[c].id /\ k.answer = co[c].answer
  BY <1>1, <1>2 DEF CoStates, Pcs
<1> HIDE DEF m, k, r
<1>8. Around(c, k, Woken(conn[s]))
  BY <1>3, <1>7, WithOthers DEF Errors
<1>9. TypeOK' /\ Beside(c, s) /\ conn'[s] = m
  <2>1. /\ running' \in Coroutines \cup {None} /\ flight' \subseteq Requests
        /\ freedUse' \in BOOLEAN /\ broken' \in BOOLEAN
    BY <1>3, <1>5 DEF TypeOK
  <2> QED
    BY <1>3, <1>6, <1>7, <1>8, <2>1, KeepsOthers
<1>10. co'[c].pc = "wait" /\ co'[c].on = s /\ co'[c].id = co[c].id /\ co'[c].answer = co[c].answer
  BY <1>7, <1>8 DEF Around, Same
<1>11. LetsGo(c, s) /\ Writes(c, s)
  BY <1>1, <1>3, <1>6, <1>9, <1>10 DEF LetsGo, Writes, Writing, r
<1>12. Itself(c, s)
  BY <1>1, <1>3, <1>10, MuxAssumption DEF Itself, Unsent
<1> QED
  BY <1>9, <1>11, <1>12 DEF Moves

-----------------------------------------------------------------------------
(* Each part of MuxInv is kept by such a move                              *)

\* Every coroutine stays on connections of its own.
LEMMA OnOwnKept ==
  ASSUME OnOwn, NEW c \in Coroutines, NEW s, Moves(c, s)
  PROVE  OnOwn'
<1>1. ASSUME NEW d \in Coroutines
      PROVE  /\ co'[d].on \in Slots \cup {d, None}
             /\ co'[d].pc \notin {"idle", "get"} => co'[d].on # None
  <2>1. CASE d = c
    BY <2>1 DEF Moves, Itself
  <2>2. CASE d # c
    BY <2>2 DEF Moves, Beside, Same, OnOwn
  <2> QED
    BY <2>1, <2>2
<1> QED
  BY <1>1 DEF OnOwn, Slots

\* The turn is taken where nobody has it, and let go by who has it.
LEMMA WriteTurnKept ==
  ASSUME WriteTurnExclusive, WriteTurnHeld, NEW c \in Coroutines, NEW s, Moves(c, s)
  PROVE  WriteTurnExclusive' /\ WriteTurnHeld'
<1> DEFINE Had(d, x)  == co[d].pc \in Writing /\ co[d].on = x
           Has(d, x) == co'[d].pc \in Writing /\ co'[d].on = x
<1>0. s \in Conns
  BY DEF Moves, Beside
<1>1. /\ \A d, e \in Coroutines : \A x : Had(d, x) /\ Had(e, x) => d = e
      /\ \A x \in Conns : conn[x].writing <=> \E d \in Coroutines : Had(d, x)
  BY DEF WriteTurnExclusive, WriteTurnHeld, Writing
<1>2. /\ \A d \in Coroutines \ {c} : \A x : Has(d, x) <=> Had(d, x)
      /\ \A x \in Conns \ {s} : conn'[x] = conn[x]
  BY DEF Moves, Beside, Same
<1>3. \/ /\ ~conn[s].writing /\ conn'[s].writing /\ Has(c, s)
         /\ \A x : ~Had(c, x) /\ (Has(c, x) => x = s)
      \/ (conn'[s].writing <=> conn[s].writing) /\ \A x : Has(c, x) <=> Had(c, x)
      \/ ~conn'[s].writing /\ Had(c, s) /\ \A x : ~Has(c, x) /\ (Had(c, x) => x = s)
  BY DEF Moves, Takes, KeepsTurn, LetsGo
<1>4. /\ \A d, e \in Coroutines : \A x : Has(d, x) /\ Has(e, x) => d = e
      /\ \A x \in Conns : conn'[x].writing <=> \E d \in Coroutines : Has(d, x)
  <2> HIDE DEF Had, Has
  <2>1. CASE /\ ~conn[s].writing /\ conn'[s].writing /\ Has(c, s)
             /\ \A x : ~Had(c, x) /\ (Has(c, x) => x = s)
    <3>1. \A d \in Coroutines : ~Had(d, s)
      BY <1>0, <1>1, <2>1
    <3> QED
      BY <1>0, <1>1, <1>2, <2>1, <3>1
  <2>2. CASE (conn'[s].writing <=> conn[s].writing) /\ \A x : Has(c, x) <=> Had(c, x)
    <3>1. \A d \in Coroutines : \A x : Has(d, x) <=> Had(d, x)
      BY <1>2, <2>2
    <3>2. \A x \in Conns : conn'[x].writing <=> conn[x].writing
      BY <1>2, <2>2
    <3> QED
      BY <1>1, <3>1, <3>2
  <2>3. CASE ~conn'[s].writing /\ Had(c, s) /\ \A x : ~Has(c, x) /\ (Had(c, x) => x = s)
    <3>1. \A d \in Coroutines : ~Has(d, s)
      BY <1>1, <1>2, <2>3
    <3> QED
      BY <1>0, <1>1, <1>2, <2>3, <3>1
  <2> QED
    BY <1>3, <2>1, <2>2, <2>3
<1>5. WriteTurnExclusive'
  BY <1>4 DEF WriteTurnExclusive, Writing
<1>6. WriteTurnHeld'
  BY <1>4 DEF WriteTurnHeld, Writing, Conns, Slots
<1> QED
  BY <1>5, <1>6

\* Who waits for the turn still does, or is woken.
LEMMA NoLostWriterKept ==
  ASSUME TypeOK, OnOwn, NoLostWriter, NEW c \in Coroutines, NEW s, Moves(c, s)
  PROVE  NoLostWriter'
<1>1. ASSUME NEW d \in Coroutines, co'[d].pc = "turn"
      PROVE  co'[d].ready \/ d \in Members(conn'[co'[d].on].writers)
  <2>1. CASE d = c
    BY <1>1, <2>1 DEF Moves, Itself
  <2>2. CASE d # c
    <3>1. co[d].pc = "turn" /\ co'[d].on = co[d].on /\ (co[d].ready => co'[d].ready)
      BY <1>1, <2>2 DEF Moves, Beside, Same
    <3>2. co[d].ready \/ d \in Members(conn[co[d].on].writers)
      BY <3>1 DEF NoLostWriter, Members
    <3>3. co[d].on \in Conns
      BY <3>1, Here
    <3>4. CASE co[d].on = s
      BY <2>2, <3>1, <3>2, <3>4 DEF Moves, Beside
    <3>5. CASE co[d].on # s
      BY <2>2, <3>1, <3>2, <3>3, <3>5 DEF Moves, Beside
    <3> QED
      BY <3>4, <3>5
  <2> QED
    BY <2>1, <2>2
<1> QED
  BY <1>1 DEF NoLostWriter, Members

\* The entries of a connection.
LEMMA EntriesOf ==
  ASSUME TypeOK, NEW s \in Conns
  PROVE  /\ conn[s].calls \in Seq(Entries) /\ conn[s].epoch \in Nat /\ conn[s].correlation \in Nat
         /\ \A e \in Members(conn[s].calls) : e \in Entries /\ e.correlation \in Nat
<1>1. conn[s].calls \in Seq(Entries) /\ conn[s].epoch \in Nat /\ conn[s].correlation \in Nat
  BY DEF TypeOK, MuxConns, Entries
<1>2. \A e \in Members(conn[s].calls) : e \in Entries
  BY <1>1, ElementOfSeq, LenProperties DEF Members
<1> QED
  BY <1>1, <1>2 DEF Entries

\* The list after a link: one entry more.
LEMMA OneMore ==
  ASSUME TypeOK, NEW c \in Coroutines, NEW s \in Conns, NEW number \in Nat, LinksTo(c, s, number)
  PROVE  Members(conn'[s].calls) = Members(conn[s].calls) \cup {[call |-> Call(c), correlation |-> number]}
<1>1. [call |-> Call(c), correlation |-> number] \in Entries
  BY DEF TypeOK, CoStates, Call, AllCalls, Entries
<1> QED
  BY <1>1, EntriesOf, MoreMembers DEF LinksTo

\* The next number is given out; and nothing is linked on a connection that
\* somebody else makes.
LEMMA CallsNumberedKept ==
  ASSUME TypeOK, OnOwn, CallsNumbered, WriteTurnExclusive',
         NEW c \in Coroutines, NEW s, Moves(c, s)
  PROVE  CallsNumbered'
<1>0. s \in Conns /\ \A x \in Conns \ {s} : conn'[x] = conn[x]
  BY DEF Moves, Beside
<1>1. /\ conn[s].correlation \in Nat /\ \A e \in Members(conn[s].calls) : e.correlation \in Nat
      /\ conn[s].correlation + 1 \in Nat /\ conn[s].correlation <= conn[s].correlation + 1
  BY <1>0, EntriesOf
<1> DEFINE Good(q, n) == \A e \in Members(q) :
             e.correlation <= n /\ \A f \in Members(q) : e.correlation = f.correlation => e = f
<1>2. Good(conn[s].calls, conn[s].correlation)
  BY <1>0 DEF CallsNumbered
<1>3. Good(conn'[s].calls, conn'[s].correlation)
  <2>1. CASE Links(c, s)
    <3> DEFINE n == [call |-> Call(c), correlation |-> conn[s].correlation + 1]
    <3>1. Members(conn'[s].calls) = Members(conn[s].calls) \cup {n}
      BY <1>0, <1>1, <2>1, OneMore DEF Links
    <3>2. conn'[s].correlation = conn[s].correlation + 1 /\ n.correlation = conn[s].correlation + 1
      BY <2>1 DEF Links, LinksTo
    <3> HIDE DEF n
    <3>3. \A e \in Members(conn[s].calls) : e.correlation < n.correlation
      BY <1>1, <1>2, <3>2
    <3> QED
      BY <1>1, <1>2, <3>1, <3>2, <3>3
  <2>2. CASE Opens(c, s)
    <3>1. conn[s].calls = <<>>
      BY <2>2 DEF Opens, CallsNumbered
    <3>2. Members(conn'[s].calls) = {[call |-> Call(c), correlation |-> 1]}
      BY <1>0, <2>2, <3>1, OneMore DEF Opens, Members
    <3>3. conn'[s].correlation = 1
      BY <2>2 DEF Opens, LinksTo
    <3> QED
      BY <3>2, <3>3
  <2>3. CASE Names(c, s)
    <3>1. Members(conn'[s].calls) = {}
      BY <2>3 DEF Names, Members
    <3> QED
      BY <3>1
  <2>4. CASE Writes(c, s) \/ Drops(c, s)
    <3>1. Members(conn'[s].calls) \subseteq Members(conn[s].calls) /\ conn'[s].correlation = conn[s].correlation
      BY <2>4 DEF Writes, Drops
    <3> QED
      BY <1>2, <3>1
  <2> QED
    BY <2>1, <2>2, <2>3, <2>4 DEF Moves
<1>4. ASSUME NEW d \in Coroutines, co'[d].pc = "connect" PROVE conn'[co'[d].on].calls = <<>>
  <2>1. CASE d = c
    BY <1>4, <2>1 DEF Moves, Links, Opens, LinksTo, Names, Writes, Drops, Writing
  <2>2. CASE d # c
    <3>1. co[d].pc = "connect" /\ co'[d].on = co[d].on
      BY <1>4, <2>2 DEF Moves, Beside, Same
    <3>2. conn[co[d].on].calls = <<>> /\ co[d].on \in Conns
      BY <3>1, Here DEF CallsNumbered
    <3>3. CASE co[d].on = s
      <4>1. ~Links(c, s) /\ ~Opens(c, s)
        BY <1>4, <2>2, <3>1, <3>3 DEF WriteTurnExclusive, Links, Opens, LinksTo
      <4> QED
        BY <3>1, <3>2, <3>3, <4>1 DEF Moves, Names, Writes, Drops
    <3>4. CASE co[d].on # s
      BY <1>0, <3>1, <3>2, <3>4
    <3> QED
      BY <3>3, <3>4
  <2> QED
    BY <2>1, <2>2
<1>5. ASSUME NEW x \in Conns PROVE Good(conn'[x].calls, conn'[x].correlation)
  BY <1>0, <1>3 DEF CallsNumbered
<1> QED
  BY <1>4, <1>5 DEF CallsNumbered, Conns, Slots, Members

\* The number a request went out with is kept for it: the next is another, and a
\* new connection is another epoch.
LEMMA NumbersKeptKept ==
  ASSUME TypeOK, TypeOK', OnOwn, CallsNumbered, NumbersKept, SendingLinked,
         NEW c \in Coroutines, NEW s, Moves(c, s)
  PROVE  NumbersKept'
<1>0. s \in Conns /\ \A x \in Conns \ {s} : conn'[x] = conn[x]
  BY DEF Moves, Beside
<1>1. /\ conn[s].correlation \in Nat /\ conn[s].epoch \in Nat
      /\ \A e \in Members(conn[s].calls) : e.correlation \in Nat
  BY <1>0, EntriesOf
<1> DEFINE Kept(f, m) ==
             /\ f.epoch <= m.epoch
             /\ f.epoch = m.epoch =>
                  /\ f.correlation <= m.correlation
                  /\ \A e \in Members(m.calls) : e.correlation = f.correlation => e.call = f.call
<1>2. \A f \in flight : Kept(f, conn[f.on])
  BY DEF NumbersKept
<1>3. \A f \in flight : f.on \in Conns /\ f.epoch \in Nat /\ f.correlation \in Nat
  BY DEF TypeOK, Requests
<1>4. ASSUME NEW f \in flight, f.on = s PROVE Kept(f, conn'[s])
  <2>1. CASE Links(c, s)
    <3> DEFINE n == [call |-> Call(c), correlation |-> conn[s].correlation + 1]
    <3>1. Members(conn'[s].calls) = Members(conn[s].calls) \cup {n}
      BY <1>0, <1>1, <2>1, OneMore DEF Links
    <3>2. /\ conn'[s].correlation = conn[s].correlation + 1 /\ conn'[s].epoch = conn[s].epoch
          /\ n.correlation = conn[s].correlation + 1
      BY <2>1 DEF Links, LinksTo
    <3> HIDE DEF n
    <3> QED
      BY <1>1, <1>2, <1>3, <1>4, <3>1, <3>2
  <2>2. CASE Opens(c, s)
    BY <1>1, <1>2, <1>3, <1>4, <2>2 DEF Opens
  <2>3. CASE Names(c, s)
    BY <1>2, <1>4, <2>3 DEF Names, Members
  <2>4. CASE Writes(c, s) \/ Drops(c, s)
    <3>1. /\ Members(conn'[s].calls) \subseteq Members(conn[s].calls)
          /\ conn'[s].correlation = conn[s].correlation /\ conn'[s].epoch = conn[s].epoch
      BY <2>4 DEF Writes, Drops
    <3> QED
      BY <1>2, <1>4, <3>1
  <2> QED
    BY <2>1, <2>2, <2>3, <2>4 DEF Moves
<1>5. ASSUME Writes(c, s),
             NEW f, f = [call |-> Call(c), peer |-> conn[s].peer, on |-> s, epoch |-> co[c].epoch,
                         correlation |-> Sequence(c)]
      PROVE  f.on = s /\ Kept(f, conn'[s])
  <2>1. /\ conn'[s].calls = conn[s].calls /\ conn'[s].epoch = conn[s].epoch
        /\ conn'[s].correlation = conn[s].correlation /\ co[c].epoch = conn[s].epoch
    BY <1>5 DEF Writes
  <2>2. \E e \in Members(conn[s].calls) : e.call = Call(c)
    BY <1>5 DEF Writes, SendingLinked
  <2>3. PICK e \in Members(conn[s].calls) : e.call = Call(c) /\ Sequence(c) = e.correlation
    BY <1>5, <2>2 DEF Sequence, Writes
  <2>4. /\ e.correlation <= conn[s].correlation
        /\ \A g \in Members(conn[s].calls) : e.correlation = g.correlation => e = g
    BY <1>0 DEF CallsNumbered
  <2>5. f.call = Call(c) /\ f.on = s /\ f.epoch = co[c].epoch /\ f.correlation = e.correlation
    BY <1>5, <2>3
  <2> HIDE DEF Members
  <2> QED
    BY ONLY <1>1, <2>1, <2>3, <2>4, <2>5
<1>6. ASSUME NEW f \in flight' PROVE Kept(f, conn'[f.on])
  <2>1. CASE f \in flight
    <3>1. CASE f.on = s
      BY <1>4, <2>1, <3>1
    <3>2. CASE f.on # s
      BY <1>0, <1>2, <1>3, <2>1, <3>2
    <3> QED
      BY <3>1, <3>2
  <2>2. CASE f \notin flight
    <3>1. /\ Writes(c, s)
          /\ f = [call |-> Call(c), peer |-> conn[s].peer, on |-> s, epoch |-> co[c].epoch,
                  correlation |-> Sequence(c)]
      BY <2>2 DEF Moves, Links, Opens, LinksTo, Names, Writes, Drops
    <3>2. f.on = s /\ Kept(f, conn'[s])
      BY <1>5, <3>1
    <3> QED
      BY <3>2
  <2> QED
    BY <2>1, <2>2
<1> QED
  BY <1>6 DEF NumbersKept, Members

\* What is read is for the call that has its number.
LEMMA FrameOfTargetKept ==
  ASSUME TypeOK, NumbersKept, FrameOfTarget, NEW c \in Coroutines, NEW s, Moves(c, s)
  PROVE  FrameOfTarget'
<1>1. ASSUME NEW d \in Coroutines, co'[d].pc = "body", co'[d].target # NoCall
      PROVE  co'[d].frame = co'[d].target
  <2>1. CASE d = c
    BY <1>1, <2>1 DEF Moves, Itself, Reads, NumbersKept
  <2>2. CASE d # c
    BY <1>1, <2>2 DEF Moves, Beside, Same, FrameOfTarget
  <2> QED
    BY <2>1, <2>2
<1> QED
  BY <1>1 DEF FrameOfTarget, NoCall

\* A request is written at the end of Unsent, and the next call has another number.
LEMMA AnswersFollowKept ==
  ASSUME TypeOK, TypeOK', AnswersFollow, NEW c \in Coroutines, NEW s, Moves(c, s)
  PROVE  AnswersFollow'
<1> DEFINE Before(id, x)  == id <= co[x].id /\ (co[x].pc \in Unsent => id < co[x].id)
           After(id, x)   == id <= co'[x].id /\ (co'[x].pc \in Unsent => id < co'[x].id)
<1>1. ASSUME NEW x \in Coroutines, NEW id \in Nat, Before(id, x) PROVE After(id, x)
  <2>0. co[x].id \in Nat
    BY DEF TypeOK, CoStates
  <2>1. CASE x = c
    <3>1. \/ co'[c].id = co[c].id /\ (co'[c].pc \in Unsent => co[c].pc \in Unsent)
          \/ co'[c].id = co[c].id + 1
      BY DEF Moves, Itself
    <3> QED
      BY <1>1, <2>0, <2>1, <3>1
  <2>2. CASE x # c
    <3>1. co'[x].id = co[x].id /\ co'[x].pc = co[x].pc
      BY <2>2 DEF Moves, Beside, Same
    <3> QED
      BY <1>1, <3>1
  <2> QED
    BY <2>1, <2>2
<1>2. \A f \in flight : f.call \in AllCalls /\ f.call.id \in Nat
  BY DEF TypeOK, Requests, AllCalls
<1>3. ASSUME NEW f \in flight, NEW x \in Coroutines, f.call.co = x
      PROVE  Before(f.call.id, x) /\ After(f.call.id, x)
  <2>1. Before(f.call.id, x)
    BY <1>3 DEF AnswersFollow
  <2> QED
    BY <1>1, <1>2, <2>1
<1>4. ASSUME NEW f \in flight', f \notin flight, NEW x \in Coroutines, f.call.co = x
      PROVE  After(f.call.id, x)
  <2>1. f.call = Call(c) /\ co'[c].pc = "wait" /\ co'[c].id = co[c].id
    BY <1>4 DEF Moves, Links, Opens, LinksTo, Names, Writes, Drops
  <2>2. x = c /\ f.call.id = co[c].id /\ co[c].id \in Nat
    BY <1>4, <2>1 DEF Call, TypeOK, CoStates
  <2> QED
    BY <2>1, <2>2 DEF Unsent
<1>5. ASSUME NEW d \in Coroutines, co'[d].pc = "body", NEW x \in Coroutines, co'[d].frame.co = x
      PROVE  After(co'[d].frame.id, x)
  <2>1. CASE d = c
    <3>1. PICK f \in flight : co'[c].frame = f.call
      BY <1>5, <2>1 DEF Moves, Itself, Reads
    <3> QED
      BY <1>3, <1>5, <2>1, <3>1
  <2>2. CASE d # c
    <3>1. co[d].pc = "body" /\ co'[d].frame = co[d].frame
      BY <1>5, <2>2 DEF Moves, Beside, Same
    <3>2. Before(co[d].frame.id, x)
      BY <1>5, <3>1 DEF AnswersFollow
    <3>3. co[d].frame.id \in Nat
      BY DEF TypeOK, CoStates, AllCalls, NoCall
    <3> QED
      BY <1>1, <3>1, <3>2, <3>3
  <2> QED
    BY <2>1, <2>2
<1> HIDE DEF Before
<1> QED
  BY <1>3, <1>4, <1>5 DEF AnswersFollow, Unsent

\* A call being written stays in the list of a connection that stays.
LEMMA SendingLinkedKept ==
  ASSUME TypeOK, TypeOK', OnOwn, SendingLinked, WriteTurnExclusive', NEW c \in Coroutines, NEW s, Moves(c, s)
  PROVE  SendingLinked'
<1>0. s \in Conns /\ \A x \in Conns \ {s} : conn'[x] = conn[x]
  BY DEF Moves, Beside
<1>1. conn[s].epoch \in Nat /\ conn'[s].epoch \in Nat
  BY <1>0 DEF TypeOK, MuxConns
<1>2. ASSUME NEW d \in Coroutines, co'[d].pc = "sending"
      PROVE  /\ co'[d].epoch <= conn'[co'[d].on].epoch
             /\ (conn'[co'[d].on].open /\ conn'[co'[d].on].epoch = co'[d].epoch) =>
                  \E e \in Members(conn'[co'[d].on].calls) : e.call = Call(d)'
  <2>1. CASE d = c
    <3>1. PICK number \in Nat : LinksTo(c, s, number)
      <4>1. conn[s].correlation + 1 \in Nat /\ 1 \in Nat
        BY <1>0, EntriesOf
      <4>2. Links(c, s) \/ Opens(c, s)
        BY <1>2, <2>1 DEF Moves, Names, Writes, Drops, Writing
      <4> QED
        BY <4>1, <4>2 DEF Links, Opens
    <3>2. [call |-> Call(c), correlation |-> number] \in Members(conn'[s].calls)
      BY <1>0, <3>1, OneMore
    <3>3. Call(c)' = Call(c) /\ co'[c].on = s /\ co'[c].epoch = conn'[s].epoch
      BY <3>1 DEF LinksTo, Call
    <3> QED
      BY <1>1, <2>1, <3>2, <3>3
  <2>2. CASE d # c
    <3>1. co[d].pc = "sending" /\ co'[d].on = co[d].on /\ co'[d].epoch = co[d].epoch /\ Call(d)' = Call(d)
      BY <1>2, <2>2 DEF Moves, Beside, Same, Call
    <3>2. co[d].on \in Conns /\ co[d].epoch \in Nat
      BY <3>1, Here DEF CoStates
    <3>3. /\ co[d].epoch <= conn[co[d].on].epoch
          /\ (conn[co[d].on].open /\ conn[co[d].on].epoch = co[d].epoch) =>
               \E e \in Members(conn[co[d].on].calls) : e.call = Call(d)
      BY <3>1 DEF SendingLinked
    <3>4. CASE co[d].on # s
      BY <1>0, <3>1, <3>2, <3>3, <3>4
    <3>5. CASE co[d].on = s
      <4>1. ~Links(c, s) /\ ~Opens(c, s) /\ ~Names(c, s)
        BY <1>2, <2>2, <3>1, <3>5 DEF WriteTurnExclusive, Links, Opens, LinksTo, Names
      <4>2. CASE Writes(c, s)
        BY <3>1, <3>3, <3>5, <4>2 DEF Writes
      <4>3. CASE Drops(c, s)
        <5>1. conn'[s].epoch = conn[s].epoch
          BY <4>3 DEF Drops
        <5>2. ASSUME conn'[s].open, conn'[s].epoch = co[d].epoch
              PROVE  \E e \in Members(conn'[s].calls) : e.call = Call(d)
          <6>1. PICK e \in Members(conn[s].calls) : e.call = Call(d)
            BY <3>3, <3>5, <4>3, <5>1, <5>2 DEF Drops
          <6>2. e \in Members(conn'[s].calls)
            BY <2>2, <3>1, <3>5, <4>3, <5>2, <6>1 DEF Drops
          <6> QED
            BY <6>1, <6>2
        <5> QED
          BY <3>1, <3>3, <3>5, <5>1, <5>2
      <4> QED
        BY <4>1, <4>2, <4>3 DEF Moves
    <3> QED
      BY <3>4, <3>5
  <2> QED
    BY <2>1, <2>2
<1> QED
  BY <1>2 DEF SendingLinked, Members

\* An answer is to the call that has it.
LEMMA OwnResponseKept ==
  ASSUME OwnResponse, NEW c \in Coroutines, NEW s, Moves(c, s)
  PROVE  OwnResponse'
<1>1. ASSUME NEW d \in Coroutines, co'[d].answer # NoCall PROVE co'[d].answer = Call(d)'
  <2>1. CASE d = c
    BY <1>1, <2>1 DEF Moves, Itself, OwnResponse, Call
  <2>2. CASE d # c
    BY <1>1, <2>2 DEF Moves, Beside, Same, OwnResponse, Call
  <2> QED
    BY <2>1, <2>2
<1> QED
  BY <1>1 DEF OwnResponse, NoCall

-----------------------------------------------------------------------------
(* The theorem                                                             *)

\* Nothing is open, nobody has called.
LEMMA MuxStarts ==
  ASSUME Init
  PROVE  MuxInv
<1>1. NewConn \in MuxConns
  <2>1. <<>> \in Seq([call : AllCalls, correlation : Nat]) /\ <<>> \in Seq(Coroutines)
    OBVIOUS
  <2> QED
    BY <2>1 DEF NewConn, MuxConns
<1>2. NewCo \in CoStates
  BY MuxAssumption DEF NewCo, CoStates, Pcs, Errors
<1>3. \A s \in Conns : conn[s] = NewConn
  BY DEF Init
<1>4. \A c \in Coroutines : co[c] = NewCo
  BY DEF Init
<1>5. TypeOK
  BY <1>1, <1>2 DEF Init, TypeOK
<1>6. \A c \in Coroutines : co[c].pc = "idle" /\ co[c].on = None /\ co[c].answer = NoCall
  BY <1>4 DEF NewCo
<1>7. \A s \in Conns : ~conn[s].writing /\ Members(conn[s].calls) = {}
  BY <1>3 DEF NewConn, Members
<1>8. flight = {}
  BY DEF Init
<1> QED
  BY <1>5, <1>6, <1>7, <1>8
     DEF MuxInv, OnOwn, WriteTurnExclusive, WriteTurnHeld, NoLostWriter, CallsNumbered, NumbersKept,
         FrameOfTarget, AnswersFollow, SendingLinked, OwnResponse, Unsent

\* A step of a coroutine is a move.
LEMMA StepsMove ==
  ASSUME MuxInv, NEW c \in Coroutines, Step(c) \/ \E p \in Peers : Send(c, p)
  PROVE  TypeOK' /\ \E s \in Conns : Moves(c, s)
<1>1. /\ TypeOK /\ OnOwn /\ WriteTurnHeld /\ FrameOfTarget /\ AnswersFollow /\ SendingLinked
  BY DEF MuxInv
<1>2. CASE \E p \in Peers : Send(c, p)
  BY <1>1, <1>2, SendMoves
<1>3. CASE GetWait(c) \/ GetTurn(c) \/ GetConnect(c)
  BY <1>1, <1>3, GetWaitMoves, GetTurnMoves, GetConnectMoves
<1>4. CASE TurnAgain(c) \/ TurnTaken(c) \/ TurnClosed(c)
  BY <1>1, <1>4, TurnAgainMoves, TurnTakenMoves, TurnClosedMoves
<1>5. CASE Connected(c) \/ ConnectFails(c)
  BY <1>1, <1>5, ConnectedMoves, ConnectFailsMoves
<1>6. CASE Sent(c) \/ SendFails(c)
  BY <1>1, <1>6, SentMoves, SendFailsMoves
<1>7. CASE Park(c) \/ Unpark(c) \/ ReadTurn(c) \/ ReadExpires(c)
  BY <1>1, <1>7, ParkMoves, UnparkMoves, ReadTurnMoves, ReadExpiresMoves
<1>8. CASE ReadHeader(c) \/ ReadHeaderFails(c) \/ ReadBody(c) \/ ReadBodyFails(c)
  BY <1>1, <1>8, ReadHeaderMoves, ReadHeaderFailsMoves, ReadBodyMoves, ReadBodyFailsMoves
<1>9. CASE WaitFails(c) \/ WaitEnd(c)
  BY <1>1, <1>9, WaitFailsMoves, WaitEndMoves
<1> QED
  BY <1>2, <1>3, <1>4, <1>5, <1>6, <1>7, <1>8, <1>9 DEF Step

\* And a move keeps the invariant.
LEMMA MovesKeep ==
  ASSUME MuxInv, TypeOK', NEW c \in Coroutines, NEW s \in Conns, Moves(c, s)
  PROVE  MuxInv'
<1>1. /\ TypeOK /\ OnOwn /\ WriteTurnExclusive /\ WriteTurnHeld /\ NoLostWriter /\ CallsNumbered
      /\ NumbersKept /\ FrameOfTarget /\ AnswersFollow /\ SendingLinked /\ OwnResponse
  BY DEF MuxInv
<1>2. OnOwn' /\ NoLostWriter'
  BY <1>1, OnOwnKept, NoLostWriterKept
<1>3. WriteTurnExclusive' /\ WriteTurnHeld'
  BY <1>1, WriteTurnKept
<1>4. CallsNumbered' /\ NumbersKept'
  BY <1>1, <1>3, CallsNumberedKept, NumbersKeptKept
<1>5. FrameOfTarget' /\ AnswersFollow'
  BY <1>1, FrameOfTargetKept, AnswersFollowKept
<1>6. SendingLinked' /\ OwnResponse'
  BY <1>1, <1>3, SendingLinkedKept, OwnResponseKept
<1> QED
  BY <1>2, <1>3, <1>4, <1>5, <1>6 DEF MuxInv

\* MuxInv is inductive: a step is a move, or nothing happens.
LEMMA MuxStep ==
  ASSUME MuxInv, [Next]_vars
  PROVE  MuxInv'
<1>1. CASE Next
  <2>1. PICK c \in Coroutines : Step(c) \/ \E p \in Peers : Send(c, p)
    BY <1>1 DEF Next
  <2>2. TypeOK' /\ \E s \in Conns : Moves(c, s)
    BY <2>1, StepsMove
  <2> QED
    BY <2>2, MovesKeep
<1>2. CASE UNCHANGED vars
  BY <1>2 DEF vars, MuxInv, TypeOK, OnOwn, WriteTurnExclusive, WriteTurnHeld, NoLostWriter, CallsNumbered,
              NumbersKept, FrameOfTarget, AnswersFollow, SendingLinked, OwnResponse, Call
<1> QED
  BY <1>1, <1>2

\* One coroutine writes on a connection at a time, the turn is taken exactly while
\* somebody uses it and no one who waits for it is forgotten; and a call that is
\* answered has the response to itself, however late or out of order it comes and
\* whatever breaks - for any number of coroutines, peers, slots and calls.
THEOREM MuxSound == Spec => []MuxInv
<1>1. Init => MuxInv
  BY MuxStarts
<1>2. MuxInv /\ [Next]_vars => MuxInv'
  BY MuxStep
<1> QED
  BY <1>1, <1>2, PTL DEF Spec

-----------------------------------------------------------------------------
(* Until a connection is failed: the read turn, the lists, what is open    *)

Reading == {"connect", "reading", "body"}

\* The read turn is in the hands of one coroutine, the connecter included.
ReadersApart ==
  \A c, d \in Coroutines :
    (c # d /\ co[c].pc \in Reading /\ co[d].pc \in Reading) => co[c].on # co[d].on

\* Who reads has an open connection and who connects has not.
LEMMA ReadersAreApart ==
  ASSUME CallsLive, WriteTurnExclusive
  PROVE  ReadersApart
  BY DEF CallsLive, ReadTurnExclusive, WriteTurnExclusive, NoneClosed, ReadersApart, Reading, SameConn

\* The read turn is taken by c, is left alone, or is let go by c.
TakesRead(c, s) ==
  /\ ~conn[s].reading /\ conn'[s].reading
  /\ co[c].pc \notin Reading /\ co'[c].pc \in Reading /\ co'[c].on = s
KeepsRead(c, s) ==
  /\ conn'[s].reading <=> conn[s].reading
  /\ co'[c].pc \in Reading <=> co[c].pc \in Reading
  /\ co[c].pc \in Reading => co'[c].on = co[c].on
LetsReadGo(c, s) ==
  /\ ~conn'[s].reading /\ co[c].pc \in Reading /\ co[c].on = s /\ co'[c].pc \notin Reading

\* The connection stays as it is, is opened by its connecter, or is closed where
\* nobody uses it.
StaysOpen(c, s) ==
  /\ conn'[s].open <=> conn[s].open
  /\ conn'[s].epoch = conn[s].epoch
  /\ co'[c].pc \in {"sending", "reading", "body"} =>
       co'[c].on = s /\ conn[s].open /\ co'[c].epoch = conn[s].epoch
  /\ conn[s].calls = <<>> => conn'[s].calls = <<>> \/ conn[s].open
  /\ co'[c].pc # "connect"
IsOpened(c, s) ==
  /\ co[c].pc = "connect" /\ co[c].on = s
  /\ conn'[s].open
  /\ co'[c].pc = "sending" /\ co'[c].on = s /\ co'[c].epoch = conn'[s].epoch
IsClosed(c, s) ==
  /\ ~conn'[s].open /\ conn'[s].calls = <<>>
  /\ co'[c].pc \in {"idle", "get", "connect"} /\ (co'[c].pc = "connect" => co'[c].on = s)
  /\ \A d \in Coroutines \ {c} : co[d].pc \in {"sending", "reading", "body"} => co[d].on # s

\* The list stays as it is, a call joins it, one is answered, or the wait for one
\* ends.
Stays(c) ==
  \/ co[c].pc \notin UnderWay /\ co'[c].pc \notin UnderWay
  \/ /\ co[c].pc \in UnderWay /\ co'[c].pc \in UnderWay
     /\ co'[c].pc = "sending" => co[c].pc = "sending"
     /\ co'[c].on = co[c].on /\ co'[c].id = co[c].id
Untouched(c, s) ==
  /\ conn'[s].calls = conn[s].calls
  /\ Stays(c) /\ (co'[c].pc \in UnderWay => (co'[c].done <=> co[c].done))
  /\ \A d \in Coroutines \ {c} : co'[d].done <=> co[d].done
Joins(c, s) ==
  /\ \E number \in Nat : LinksTo(c, s, number)
  /\ co[c].pc \notin UnderWay
  /\ \A d \in Coroutines \ {c} : co'[d].done <=> co[d].done
Answers(c, s) ==
  /\ co[c].pc = "body" /\ co'[c].pc = "wait" /\ co[c].on = s
  /\ co'[c].on = co[c].on /\ co'[c].id = co[c].id
  /\ co[c].target # NoCall /\ Live(co[c].target)
  /\ conn'[s].calls = Without(conn[s].calls, co[c].target)
  /\ \A d \in Coroutines : co'[d].done <=> co[d].done \/ d = co[c].target.co
Ends(c, s) ==
  /\ co[c].pc = "wait" /\ co[c].on = s /\ co'[c].pc \in {"idle", "get"}
  /\ conn'[s].calls = IF co[c].done THEN conn[s].calls ELSE Without(conn[s].calls, Call(c))
  /\ \A d \in Coroutines \ {c} : co'[d].done <=> co[d].done

Calm(c, s) ==
  /\ s \in Conns
  /\ \A x \in Conns \ {s} : conn'[x] = conn[x]
  /\ \A d \in Coroutines \ {c} : Same(co'[d], co[d])
  /\ co'[c].live <=> co'[c].pc # "idle"
  /\ co'[c].pc \in Unsent => ~co'[c].done
  /\ TakesRead(c, s) \/ KeepsRead(c, s) \/ LetsReadGo(c, s)
  /\ StaysOpen(c, s) \/ IsOpened(c, s) \/ IsClosed(c, s)
  /\ Untouched(c, s) \/ Joins(c, s) \/ Answers(c, s) \/ Ends(c, s)
  /\ co'[c].pc = "body" =>
       /\ co[c].pc = "reading" /\ co[c].on = s
       /\ co'[c].target = NoCall \/ \E e \in Members(conn[s].calls) : co'[c].target = e.call

\* The read turn is taken where nobody has it, and let go by who has it.
LEMMA ReadTurnKept ==
  ASSUME ReadersApart, ReadTurnHeld, NEW c \in Coroutines, NEW s, Calm(c, s)
  PROVE  ReadersApart' /\ ReadTurnHeld'
<1> DEFINE Had(d, x) == co[d].pc \in Reading /\ co[d].on = x
           Has(d, x) == co'[d].pc \in Reading /\ co'[d].on = x
<1>0. s \in Conns
  BY DEF Calm
<1>1. /\ \A d, e \in Coroutines : \A x : Had(d, x) /\ Had(e, x) => d = e
      /\ \A x \in Conns : conn[x].reading <=> \E d \in Coroutines : Had(d, x)
  BY DEF ReadersApart, ReadTurnHeld, Reading
<1>2. /\ \A d \in Coroutines \ {c} : \A x : Has(d, x) <=> Had(d, x)
      /\ \A x \in Conns \ {s} : conn'[x] = conn[x]
  BY DEF Calm, Same
<1>3. \/ /\ ~conn[s].reading /\ conn'[s].reading /\ Has(c, s)
         /\ \A x : ~Had(c, x) /\ (Has(c, x) => x = s)
      \/ (conn'[s].reading <=> conn[s].reading) /\ \A x : Has(c, x) <=> Had(c, x)
      \/ ~conn'[s].reading /\ Had(c, s) /\ \A x : ~Has(c, x) /\ (Had(c, x) => x = s)
  BY DEF Calm, TakesRead, KeepsRead, LetsReadGo
<1>4. /\ \A d, e \in Coroutines : \A x : Has(d, x) /\ Has(e, x) => d = e
      /\ \A x \in Conns : conn'[x].reading <=> \E d \in Coroutines : Has(d, x)
  <2> HIDE DEF Had, Has
  <2>1. CASE /\ ~conn[s].reading /\ conn'[s].reading /\ Has(c, s)
             /\ \A x : ~Had(c, x) /\ (Has(c, x) => x = s)
    <3>1. \A d \in Coroutines : ~Had(d, s)
      BY <1>0, <1>1, <2>1
    <3> QED
      BY <1>0, <1>1, <1>2, <2>1, <3>1
  <2>2. CASE (conn'[s].reading <=> conn[s].reading) /\ \A x : Has(c, x) <=> Had(c, x)
    <3>1. \A d \in Coroutines : \A x : Has(d, x) <=> Had(d, x)
      BY <1>2, <2>2
    <3>2. \A x \in Conns : conn'[x].reading <=> conn[x].reading
      BY <1>2, <2>2
    <3> QED
      BY <1>1, <3>1, <3>2
  <2>3. CASE ~conn'[s].reading /\ Had(c, s) /\ \A x : ~Has(c, x) /\ (Had(c, x) => x = s)
    <3>1. \A d \in Coroutines : ~Has(d, s)
      BY <1>1, <1>2, <2>3
    <3> QED
      BY <1>0, <1>1, <1>2, <2>3, <3>1
  <2> QED
    BY <1>3, <2>1, <2>2, <2>3
<1>5. ReadersApart'
  BY <1>4 DEF ReadersApart, Reading
<1>6. ReadTurnHeld'
  BY <1>4 DEF ReadTurnHeld, Reading, Conns, Slots
<1> QED
  BY <1>5, <1>6

\* Nobody's connection is closed, nor opened anew, under him.
LEMMA NoneClosedKept ==
  ASSUME TypeOK, OnOwn, WriteTurnExclusive, ReadersApart, NoneClosed,
         NEW c \in Coroutines, NEW s, Calm(c, s)
  PROVE  NoneClosed'
<1>0. s \in Conns /\ \A x \in Conns \ {s} : conn'[x] = conn[x]
  BY DEF Calm
<1>1. \A d \in Coroutines \ {c} : co'[d].pc = co[d].pc /\ co'[d].on = co[d].on /\ co'[d].epoch = co[d].epoch
  BY DEF Calm, Same
<1>2. ASSUME NEW d \in Coroutines, co'[d].pc \in {"sending", "reading", "body"}
      PROVE  conn'[co'[d].on].open /\ conn'[co'[d].on].epoch = co'[d].epoch
  <2>1. CASE d = c
    <3>1. CASE StaysOpen(c, s)
      BY <1>2, <2>1, <3>1 DEF StaysOpen
    <3>2. CASE IsOpened(c, s)
      BY <2>1, <3>2 DEF IsOpened
    <3>3. ~IsClosed(c, s)
      BY <1>2, <2>1 DEF IsClosed
    <3> QED
      BY <3>1, <3>2, <3>3 DEF Calm
  <2>2. CASE d # c
    <3>1. co[d].pc \in {"sending", "reading", "body"} /\ co'[d].on = co[d].on /\ co'[d].epoch = co[d].epoch
      BY <1>1, <1>2, <2>2
    <3>2. conn[co[d].on].open /\ conn[co[d].on].epoch = co[d].epoch /\ co[d].on \in Conns
      BY <3>1, Here DEF NoneClosed, SameConn
    <3>3. CASE co[d].on # s
      BY <1>0, <3>1, <3>2, <3>3
    <3>4. CASE co[d].on = s
      <4>1. ~IsOpened(c, s)
        BY <2>2, <3>1, <3>4 DEF IsOpened, WriteTurnExclusive, ReadersApart, Reading
      <4>2. ~IsClosed(c, s)
        BY <2>2, <3>1, <3>4 DEF IsClosed
      <4> QED
        BY <3>1, <3>2, <3>4, <4>1, <4>2 DEF Calm, StaysOpen
    <3> QED
      BY <3>3, <3>4
  <2> QED
    BY <2>1, <2>2
<1>3. ASSUME NEW x \in Conns, conn'[x].calls # <<>> PROVE conn'[x].open
  <2>1. CASE x # s
    BY <1>0, <1>3, <2>1 DEF NoneClosed
  <2>2. CASE x = s
    BY <1>3, <2>2 DEF Calm, StaysOpen, IsOpened, IsClosed, NoneClosed
  <2> QED
    BY <2>1, <2>2
<1>4. ASSUME NEW d \in Coroutines, co'[d].pc = "connect" PROVE ~conn'[co'[d].on].open
  <2>1. CASE d = c
    BY <1>4, <2>1 DEF Calm, StaysOpen, IsOpened, IsClosed
  <2>2. CASE d # c
    <3>1. co[d].pc = "connect" /\ co'[d].on = co[d].on /\ ~conn[co[d].on].open /\ co[d].on \in Conns
      BY <1>1, <1>4, <2>2, Here DEF NoneClosed
    <3>2. CASE co[d].on # s
      BY <1>0, <3>1, <3>2
    <3>3. CASE co[d].on = s
      <4>1. ~IsOpened(c, s)
        BY <2>2, <3>1, <3>3 DEF IsOpened, WriteTurnExclusive
      <4> QED
        BY <3>1, <3>3, <4>1 DEF Calm, StaysOpen, IsClosed
    <3> QED
      BY <3>2, <3>3
  <2> QED
    BY <2>1, <2>2
<1> QED
  BY <1>2, <1>3, <1>4 DEF NoneClosed, SameConn, Conns, Slots

\* The calls of a list: each is under way, and only once in it.
Listed(d, s) == \E e \in Members(conn[s].calls) : e.call = Call(d)

\* An entry's coroutine is the one whose call it is.
LEMMA WhoseEntry ==
  ASSUME TypeOK, CallsUnderWay, NEW s \in Conns, NEW e \in Members(conn[s].calls)
  PROVE  /\ e.call.co \in Coroutines /\ e.call = Call(e.call.co) /\ e.call # NoCall
         /\ co[e.call.co].on = s /\ co[e.call.co].pc \in UnderWay /\ ~co[e.call.co].done
         /\ co[e.call.co].live
<1>1. e \in Entries
  BY EntriesOf
<1>2. Live(e.call) /\ co[e.call.co].on = s /\ co[e.call.co].pc \in UnderWay /\ ~co[e.call.co].done
  BY DEF CallsUnderWay
<1>3. e.call.co \in Coroutines /\ e.call = Call(e.call.co)
  BY <1>1, <1>2 DEF Entries, AllCalls, Live, Call
<1>4. e.call # NoCall
  BY <1>3, MuxAssumption DEF NoCall, Conns
<1> QED
  BY <1>2, <1>3, <1>4 DEF Live

\* The lists after a step, where a call is taken out of one.
LEMMA TakenOut ==
  ASSUME TypeOK, CallsUnderWay, NEW s \in Conns, NEW call,
         conn'[s].calls = Without(conn[s].calls, call)
  PROVE  /\ Members(conn'[s].calls) \subseteq Members(conn[s].calls) /\ Once(conn'[s].calls)
         /\ \A e \in Members(conn[s].calls) : e.call # call => e \in Members(conn'[s].calls)
         /\ \A e \in Members(conn'[s].calls) : e.call # call
<1>1. conn[s].calls \in Seq(Entries) /\ Once(conn[s].calls)
  BY EntriesOf DEF CallsUnderWay, Once
<1> QED
  BY <1>1, WithoutOne

\* The lists after a step, where a call is put in front of one.
LEMMA PutIn ==
  ASSUME TypeOK, CallsUnderWay, NEW c \in Coroutines, NEW s \in Conns, NEW number \in Nat,
         LinksTo(c, s, number), co[c].pc \notin UnderWay
  PROVE  /\ Members(conn'[s].calls) = Members(conn[s].calls) \cup {[call |-> Call(c), correlation |-> number]}
         /\ Once(conn'[s].calls)
<1> DEFINE e == [call |-> Call(c), correlation |-> number]
           q == conn[s].calls
           r == conn'[s].calls
<1>1. Members(r) = Members(q) \cup {e}
  BY OneMore
<1>2. \A f \in Members(q) : f.call # Call(c)
  BY WhoseEntry DEF Call
<1>3. q \in Seq(Entries) /\ Once(q) /\ Len(q) \in Nat /\ DOMAIN q = 1 .. Len(q)
  BY EntriesOf, LenProperties DEF CallsUnderWay, Once
<1>4. e \in Entries /\ e.call = Call(c)
  BY DEF TypeOK, CoStates, Call, AllCalls, Entries
<1>5. r = <<e>> \o q
  BY DEF LinksTo
<1> HIDE DEF e, q
<1>6. r \in Seq(Entries) /\ Len(r) = Len(q) + 1 /\ \A k \in 1 .. Len(q) + 1 : r[k] = IF k = 1 THEN e ELSE q[k - 1]
  BY <1>3, <1>4, <1>5, ConcatProperties
<1>7. DOMAIN r = 1 .. Len(q) + 1
  BY <1>6, LenProperties
<1> HIDE DEF r
<1>8. \A k \in 1 .. Len(q) : q[k].call # Call(c)
  BY <1>2, <1>3 DEF Members
<1>9. ASSUME NEW i \in DOMAIN r, NEW j \in DOMAIN r, r[i].call = r[j].call PROVE i = j
  <2>1. \A k \in DOMAIN r : IF k = 1 THEN r[k].call = Call(c)
                            ELSE k - 1 \in DOMAIN q /\ r[k].call = q[k - 1].call /\ r[k].call # Call(c)
    BY <1>3, <1>4, <1>6, <1>7, <1>8
  <2>2. CASE i = 1 \/ j = 1
    BY <1>9, <2>1, <2>2
  <2>3. CASE i # 1 /\ j # 1
    <3>1. i - 1 \in DOMAIN q /\ j - 1 \in DOMAIN q /\ q[i - 1].call = q[j - 1].call
      BY <1>9, <2>1, <2>3
    <3>2. i - 1 = j - 1 /\ i \in Nat /\ j \in Nat
      BY <1>3, <1>7, <3>1 DEF Once
    <3> QED
      BY <3>2
  <2> QED
    BY <2>2, <2>3
<1>10. Once(r)
  BY <1>9 DEF Once
<1> QED
  BY <1>1, <1>10 DEF e, q, r

\* A call leaves the list when it is done or its wait ends, not before.
LEMMA CallsUnderWayKept ==
  ASSUME TypeOK, TypeOK', OnOwn, FrameOfTarget, AnswersFollow, CallsUnderWay, TargetHere,
         NEW c \in Coroutines, NEW s, Calm(c, s)
  PROVE  CallsUnderWay'
<1>0. s \in Conns /\ \A x \in Conns \ {s} : conn'[x] = conn[x]
  BY DEF Calm
<1>1. \A d \in Coroutines \ {c} : /\ co'[d].pc = co[d].pc /\ co'[d].on = co[d].on /\ co'[d].id = co[d].id
                                  /\ co'[d].live = co[d].live
  BY DEF Calm, Same
<1>2. \A d \in Coroutines \ {c} : Call(d)' = Call(d)
  BY <1>1 DEF Call
<1> DEFINE Fits(x)  == /\ co'[c].live /\ co'[c].on = x /\ co'[c].pc \in UnderWay /\ ~co'[c].done
           Old(e, x) == e \in Members(conn[x].calls) /\ e.call.co # c /\ ~co'[e.call.co].done
           New(e, x) == e.call = Call(c)' /\ Fits(x)
           Undone(d) == co'[d].pc \in UnderWay /\ ~co'[d].done
           Lists     == \A x \in Conns : Once(conn'[x].calls)
           Entered   == \A x \in Conns : \A e \in Members(conn'[x].calls) : Old(e, x) \/ New(e, x)
           Own       == Undone(c) => \E e \in Members(conn'[co'[c].on].calls) : e.call = Call(c)'
           Keeps     == \A d \in Coroutines \ {c} :
                          /\ co[d].done => co'[d].done
                          /\ co[d].pc \in Unsent => ~co'[d].done
                          /\ ~co'[d].done => \A x \in Conns : \A e \in Members(conn[x].calls) :
                               e.call = Call(d) => e \in Members(conn'[x].calls)
<1>3. \A x \in Conns : Once(conn[x].calls)
  BY DEF CallsUnderWay, Once
<1>4. \A x \in Conns : \A e \in Members(conn[x].calls) :
        /\ e.call.co \in Coroutines /\ e.call = Call(e.call.co)
        /\ co[e.call.co].on = x /\ co[e.call.co].pc \in UnderWay /\ ~co[e.call.co].done
  BY WhoseEntry
<1>5. \A d \in Coroutines : co[d].pc \in Unsent => ~co[d].done
  BY DEF CallsUnderWay
<1>6. ASSUME Untouched(c, s) PROVE Entered /\ Own /\ Lists /\ Keeps
  <2>1. \A x \in Conns : conn'[x].calls = conn[x].calls
    BY <1>0, <1>6 DEF Untouched
  <2>2. \A d \in Coroutines \ {c} : co'[d].done <=> co[d].done
    BY <1>6 DEF Untouched
  <2>3. co[c].pc \in UnderWay => /\ co'[c].pc \in UnderWay /\ (co'[c].done <=> co[c].done)
                                 /\ co'[c].on = co[c].on /\ Call(c)' = Call(c) /\ co'[c].live
    BY <1>6 DEF Untouched, Stays, Call, Calm, UnderWay
  <2>4. Entered
    BY <1>4, <2>1, <2>2, <2>3 DEF Members
  <2>5. Own
    <3>1. ASSUME Undone(c) PROVE \E e \in Members(conn'[co'[c].on].calls) : e.call = Call(c)'
      <4>1. co[c].pc \in UnderWay /\ ~co[c].done
        BY <1>6, <2>3, <3>1 DEF Untouched, Stays
      <4>2. co[c].on \in Conns
        BY <4>1, Here DEF UnderWay
      <4> QED
        BY <2>1, <2>3, <4>1, <4>2 DEF CallsUnderWay, Members
    <3> QED
      BY <3>1
  <2>6. Lists /\ Keeps
    BY <1>3, <1>5, <2>1, <2>2 DEF Members, Once
  <2> QED
    BY <2>4, <2>5, <2>6
<1>7. ASSUME Joins(c, s) PROVE Entered /\ Own /\ Lists /\ Keeps
  <2>1. PICK number \in Nat : LinksTo(c, s, number)
    BY <1>7 DEF Joins
  <2> DEFINE n == [call |-> Call(c), correlation |-> number]
  <2>2. Members(conn'[s].calls) = Members(conn[s].calls) \cup {n} /\ Once(conn'[s].calls)
    BY <1>0, <1>7, <2>1, PutIn DEF Joins
  <2>3. /\ \A d \in Coroutines \ {c} : co'[d].done <=> co[d].done
        /\ co[c].pc \notin UnderWay
    BY <1>7 DEF Joins
  <2>4. /\ co'[c].pc = "sending" /\ co'[c].on = s /\ Call(c)' = Call(c) /\ n.call = Call(c)
        /\ co'[c].live /\ ~co'[c].done
    BY <2>1 DEF LinksTo, Call, Calm, Unsent
  <2> HIDE DEF n
  <2>5. Entered
    <3>1. ASSUME NEW x \in Conns, NEW e \in Members(conn'[x].calls) PROVE Old(e, x) \/ New(e, x)
      <4>1. CASE e \in Members(conn[x].calls)
        BY <1>4, <2>3, <4>1
      <4>2. CASE e \notin Members(conn[x].calls)
        <5>1. x = s /\ e = n
          BY <1>0, <2>2, <3>1, <4>2 DEF Members
        <5> QED
          BY <2>4, <5>1 DEF UnderWay
      <4> QED
        BY <4>1, <4>2
    <3> QED
      BY <3>1
  <2>6. Own
    BY <2>2, <2>4
  <2>7. Lists
    BY <1>0, <1>3, <2>2 DEF Once
  <2>8. Keeps
    BY <1>0, <1>5, <2>2, <2>3 DEF Members
  <2> QED
    BY <2>5, <2>6, <2>7, <2>8
<1>8. ASSUME Answers(c, s) PROVE Entered /\ Own /\ Lists /\ Keeps
  <2> DEFINE t == co[c].target
             d == t.co
  <2>1. /\ t # NoCall /\ Live(t) /\ conn'[s].calls = Without(conn[s].calls, t)
        /\ \A y \in Coroutines : co'[y].done <=> co[y].done \/ y = d
        /\ co[c].pc = "body" /\ co[c].on = s /\ co'[c].pc = "wait" /\ co'[c].on = s /\ co'[c].id = co[c].id
    BY <1>8 DEF Answers
  <2>2. t \in AllCalls /\ d \in Coroutines /\ t = Call(d) /\ co[d].on = s
    <3>1. t \in AllCalls
      BY <2>1 DEF TypeOK, CoStates
    <3> QED
      BY <2>1, <3>1 DEF AllCalls, Live, Call, TargetHere
  <2>3. co[d].pc \notin Unsent
    <3>1. co[c].frame = t
      BY <2>1 DEF FrameOfTarget
    <3>2. co[d].pc \in Unsent => t.id < co[d].id
      BY <2>1, <2>2, <3>1 DEF AnswersFollow
    <3> QED
      BY <2>2, <3>2 DEF Call, TypeOK, CoStates
  <2> HIDE DEF t, d
  <2>4. /\ Members(conn'[s].calls) \subseteq Members(conn[s].calls) /\ Once(conn'[s].calls)
        /\ \A e \in Members(conn[s].calls) : e.call # t => e \in Members(conn'[s].calls)
        /\ \A e \in Members(conn'[s].calls) : e.call # t
    BY <1>0, <2>1, TakenOut
  <2>5. Call(c)' = Call(c) /\ co'[c].live
    BY <2>1 DEF Call, Calm
  <2>6. Entered
    <3>1. ASSUME NEW x \in Conns, NEW e \in Members(conn'[x].calls) PROVE Old(e, x) \/ New(e, x)
      <4>1. e \in Members(conn[x].calls)
        <5>1. CASE x = s
          BY <2>4, <3>1, <5>1
        <5>2. CASE x # s
          <6>1. conn'[x].calls = conn[x].calls
            BY <1>0, <5>2
          <6> QED
            BY <3>1, <6>1 DEF Members
        <5> QED
          BY <5>1, <5>2
      <4>2. /\ e.call.co \in Coroutines /\ e.call = Call(e.call.co) /\ co[e.call.co].on = x
            /\ ~co[e.call.co].done
        BY <1>4, <4>1
      <4>3. e.call.co # d
        BY <2>2, <2>4, <3>1, <4>2
      <4>4. ~co'[e.call.co].done
        BY <2>1, <4>2, <4>3
      <4>5. CASE e.call.co = c
        BY <2>1, <2>5, <4>2, <4>4, <4>5 DEF UnderWay
      <4> QED
        BY <4>1, <4>4, <4>5
    <3> QED
      BY <3>1
  <2>7. Own
    <3>1. ASSUME Undone(c) PROVE \E e \in Members(conn'[co'[c].on].calls) : e.call = Call(c)'
      <4>1. ~co[c].done /\ c # d
        BY <2>1, <3>1
      <4>2. PICK e \in Members(conn[s].calls) : e.call = Call(c)
        BY <2>1, <4>1 DEF CallsUnderWay, UnderWay
      <4>3. e.call # t
        BY <2>2, <4>1, <4>2 DEF Call
      <4> QED
        BY <2>1, <2>4, <2>5, <4>2, <4>3
    <3> QED
      BY <3>1
  <2>8. Lists
    BY <1>0, <1>3, <2>4 DEF Once
  <2>9. Keeps
    <3>1. ASSUME NEW y \in Coroutines \ {c}, ~co'[y].done, NEW x \in Conns, NEW e \in Members(conn[x].calls),
                 e.call = Call(y)
          PROVE  e \in Members(conn'[x].calls)
      <4>1. y # d
        BY <2>1, <3>1
      <4>2. e.call # t
        BY <2>2, <3>1, <4>1 DEF Call
      <4> QED
        BY <1>0, <2>4, <4>2 DEF Members
    <3> QED
      BY <1>5, <2>1, <2>3, <3>1
  <2> QED
    BY <2>6, <2>7, <2>8, <2>9
<1>9. ASSUME Ends(c, s) PROVE Entered /\ Own /\ Lists /\ Keeps
  <2>1. /\ co[c].on = s /\ co'[c].pc \notin UnderWay
        /\ \A d \in Coroutines \ {c} : co'[d].done <=> co[d].done
        /\ co[c].done => conn'[s].calls = conn[s].calls
        /\ ~co[c].done => conn'[s].calls = Without(conn[s].calls, Call(c))
    BY <1>9 DEF Ends, UnderWay
  <2>2. /\ Members(conn'[s].calls) \subseteq Members(conn[s].calls) /\ Once(conn'[s].calls)
        /\ \A e \in Members(conn[s].calls) : e.call # Call(c) => e \in Members(conn'[s].calls)
        /\ \A e \in Members(conn'[s].calls) : e.call # Call(c)
    <3>1. CASE co[c].done
      <4>1. \A e \in Members(conn[s].calls) : e.call # Call(c)
        BY <1>0, <1>4, <3>1 DEF Call
      <4>2. conn'[s].calls = conn[s].calls
        BY <2>1, <3>1
      <4> QED
        BY <1>0, <1>3, <4>1, <4>2 DEF Members, Once
    <3>2. CASE ~co[c].done
      BY <1>0, <2>1, <3>2, TakenOut
    <3> QED
      BY <3>1, <3>2
  <2>3. Entered
    <3>1. ASSUME NEW x \in Conns, NEW e \in Members(conn'[x].calls) PROVE Old(e, x)
      <4>1. e \in Members(conn[x].calls)
        BY <1>0, <2>2, <3>1 DEF Members
      <4>2. e.call.co # c
        BY <1>4, <2>1, <2>2, <3>1, <4>1
      <4> QED
        BY <1>4, <2>1, <4>1, <4>2
    <3> QED
      BY <3>1
  <2>4. Own
    BY <2>1
  <2>5. Lists
    BY <1>0, <1>3, <2>2 DEF Once
  <2>6. Keeps
    <3>1. ASSUME NEW y \in Coroutines \ {c}, NEW x \in Conns, NEW e \in Members(conn[x].calls), e.call = Call(y)
          PROVE  e \in Members(conn'[x].calls)
      <4>1. e.call # Call(c)
        BY <3>1 DEF Call
      <4> QED
        BY <1>0, <2>2, <4>1 DEF Members
    <3> QED
      BY <1>5, <2>1, <3>1
  <2> QED
    BY <2>3, <2>4, <2>5, <2>6
<1>10. Entered /\ Own /\ Lists /\ Keeps
  <2> HIDE DEF Entered, Own, Lists, Keeps
  <2> QED
    BY <1>6, <1>7, <1>8, <1>9 DEF Calm
<1>11. ASSUME NEW x \in Conns, NEW e \in Members(conn'[x].calls)
       PROVE  Live(e.call)' /\ co'[e.call.co].on = x /\ co'[e.call.co].pc \in UnderWay /\ ~co'[e.call.co].done
  <2>1. CASE Old(e, x)
    <3>1. /\ e.call.co \in Coroutines /\ co[e.call.co].on = x /\ co[e.call.co].pc \in UnderWay
          /\ Live(e.call)
      BY <2>1, WhoseEntry DEF CallsUnderWay
    <3> QED
      BY <1>1, <2>1, <3>1 DEF Live
  <2>2. CASE New(e, x)
    BY <2>2 DEF Call, Live
  <2> QED
    BY <1>10, <1>11, <2>1, <2>2
<1>12. ASSUME NEW d \in Coroutines, co'[d].pc \in UnderWay, ~co'[d].done
       PROVE  \E e \in Members(conn'[co'[d].on].calls) : e.call = Call(d)'
  <2>1. CASE d = c
    BY <1>10, <1>12, <2>1
  <2>2. CASE d # c
    <3>1. co[d].pc \in UnderWay /\ ~co[d].done /\ co'[d].on = co[d].on
      BY <1>1, <1>10, <1>12, <2>2
    <3>2. co[d].on \in Conns
      BY <3>1, Here DEF UnderWay
    <3>3. PICK e \in Members(conn[co[d].on].calls) : e.call = Call(d)
      BY <3>1 DEF CallsUnderWay
    <3>4. e \in Members(conn'[co[d].on].calls)
      BY <1>10, <1>12, <2>2, <3>2, <3>3
    <3> QED
      BY <1>2, <2>2, <3>1, <3>3, <3>4
  <2> QED
    BY <2>1, <2>2
<1>13. ASSUME NEW d \in Coroutines
       PROVE  (co'[d].live <=> co'[d].pc # "idle") /\ (co'[d].pc \in Unsent => ~co'[d].done)
  <2>1. CASE d = c
    BY <2>1 DEF Calm
  <2>2. CASE d # c
    BY <1>1, <1>10, <2>2 DEF CallsUnderWay
  <2> QED
    BY <2>1, <2>2
<1>14. \A x \in Conns : \A i, j \in DOMAIN conn'[x].calls : conn'[x].calls[i].call = conn'[x].calls[j].call => i = j
  BY <1>10 DEF Once
<1> HIDE DEF Entered, Own, Lists, Keeps
<1> QED
  BY <1>11, <1>12, <1>13, <1>14 DEF CallsUnderWay, Conns, Slots, Members, UnderWay, Unsent

\* A response that is read is for a call of the connection; and a call stays on its
\* connection until it is over.
LEMMA TargetHereKept ==
  ASSUME TypeOK, TypeOK', FrameOfTarget', AnswersFollow', CallsUnderWay, TargetHere,
         NEW c \in Coroutines, NEW s, Calm(c, s)
  PROVE  TargetHere'
<1>0. s \in Conns
  BY DEF Calm
<1>1. \A d \in Coroutines \ {c} : Same(co'[d], co[d])
  BY DEF Calm
<1>2. ASSUME NEW d \in Coroutines, co'[d].pc = "body", co'[d].target # NoCall,
             co'[co'[d].target.co].live, co'[co'[d].target.co].id = co'[d].target.id
      PROVE  co'[co'[d].target.co].on = co'[d].on
  <2> DEFINE t == co'[d].target
             y == t.co
  <2>1. t \in AllCalls /\ y \in Coroutines /\ co'[y].live /\ t.id = co'[y].id /\ co'[y].id \in Nat
    <3>1. t \in AllCalls
      BY <1>2 DEF TypeOK, CoStates
    <3> QED
      BY <1>2, <3>1 DEF AllCalls, TypeOK, CoStates
  <2>2. co'[y].pc \notin Unsent
    <3>1. co'[d].frame = t
      BY <1>2 DEF FrameOfTarget, NoCall
    <3>2. co'[y].pc \in Unsent => t.id < co'[y].id
      BY <1>2, <2>1, <3>1 DEF AnswersFollow, Unsent
    <3> QED
      BY <2>1, <3>2
  <2> HIDE DEF t
  <2>3. CASE y = c
    <3>1. co'[c].pc # "idle"
      BY <2>1, <2>3 DEF Calm
    <3>2. co[c].pc \in UnderWay /\ co'[c].on = co[c].on /\ co'[c].id = co[c].id /\ co'[c].pc \in UnderWay
      <4>1. ~Joins(c, s) /\ ~Ends(c, s)
        BY <2>2, <2>3, <3>1 DEF Joins, LinksTo, Ends, Unsent
      <4>2. CASE Untouched(c, s)
        <5>1. co'[c].pc \in UnderWay
          BY <2>2, <2>3, <3>1 DEF TypeOK, CoStates, Pcs, Unsent, UnderWay
        <5> QED
          BY <4>2, <5>1 DEF Untouched, Stays
      <4>3. CASE Answers(c, s)
        BY <4>3 DEF Answers, UnderWay
      <4> QED
        BY <4>1, <4>2, <4>3 DEF Calm
    <3>3. CASE d = c
      BY <2>3, <3>3 DEF t
    <3>4. CASE d # c
      <4>1. co[d].pc = "body" /\ co[d].target = t /\ co'[d].on = co[d].on
        BY <1>1, <1>2, <3>4 DEF Same, t
      <4>2. Live(t)
        BY <2>1, <2>3, <3>2 DEF Live, CallsUnderWay, UnderWay
      <4> QED
        BY <1>2, <2>3, <3>2, <4>1, <4>2 DEF TargetHere, t
    <3> QED
      BY <3>3, <3>4 DEF t
  <2>4. CASE y # c
    <3>1. co'[y].on = co[y].on /\ Live(t)
      BY <1>1, <2>1, <2>4 DEF Same, Live
    <3>2. CASE d = c
      <4>1. co[c].on = s /\ co[c].pc = "reading" /\ \E e \in Members(conn[s].calls) : t = e.call
        BY <1>2, <3>2 DEF Calm, t
      <4>2. co[y].on = s
        BY <1>0, <4>1, WhoseEntry
      <4>3. co'[c].on = s
        BY <1>2, <3>2, <4>1 DEF Calm, Untouched, Stays, UnderWay, Joins, LinksTo, Answers, Ends
      <4> QED
        BY <3>1, <3>2, <4>2, <4>3 DEF t
    <3>3. CASE d # c
      <4>1. co[d].pc = "body" /\ co[d].target = t /\ co'[d].on = co[d].on
        BY <1>1, <1>2, <3>3 DEF Same, t
      <4> QED
        BY <1>2, <3>1, <4>1 DEF TargetHere, t
    <3> QED
      BY <3>2, <3>3
  <2> QED
    BY <2>3, <2>4
<1> QED
  BY <1>2 DEF TargetHere, NoCall, Live

-----------------------------------------------------------------------------
(* Every step that fails no connection is calm                             *)

\* c has become k, the others are as they were but for a wake-up.
Alike(c, k) ==
  /\ Same(co'[c], k) /\ (co'[c].done <=> k.done)
  /\ \A d \in Coroutines \ {c} : Same(co'[d], co[d]) /\ (co'[d].done <=> co[d].done)

\* Only c changes, or others are woken.
LEMMA AlikeIs ==
  ASSUME TypeOK, NEW c \in Coroutines, NEW k \in CoStates, NEW woken,
         co' = [co EXCEPT ![c] = k] \/ co' = Others(c, k, {}, "none", woken)
  PROVE  Alike(c, k)
<1>1. CASE co' = [co EXCEPT ![c] = k]
  BY <1>1, CoPut DEF Alike, Same
<1>2. CASE co' = Others(c, k, {}, "none", woken)
  <2>1. AreOthers(co', c, k, {}, woken)
    BY <1>2, OthersAre DEF Errors
  <2> QED
    BY <2>1 DEF AreOthers, Alike
<1> QED
  BY <1>1, <1>2

\* A step that leaves the list as it is, and the connection open or not.
LEMMA StayCalm ==
  ASSUME TypeOK, NEW c \in Coroutines, NEW s \in Conns, NEW m, NEW k,
         conn' = [conn EXCEPT ![s] = m], Alike(c, k),
         m.calls = conn[s].calls, m.epoch = conn[s].epoch, m.open <=> conn[s].open,
         k.live <=> k.pc # "idle", k.pc \in Unsent => ~k.done, k.pc \notin {"connect", "sending"},
         k.pc \in {"reading", "body"} => k.on = s /\ conn[s].open /\ k.epoch = conn[s].epoch,
         \/ co[c].pc \notin UnderWay /\ k.pc \notin UnderWay
         \/ /\ co[c].pc \in UnderWay /\ k.pc \in UnderWay
            /\ k.on = co[c].on /\ k.id = co[c].id /\ (k.done <=> co[c].done),
         \/ /\ m.reading <=> conn[s].reading
            /\ k.pc \in Reading <=> co[c].pc \in Reading
            /\ co[c].pc \in Reading => k.on = co[c].on
         \/ ~conn[s].reading /\ m.reading /\ co[c].pc \notin Reading /\ k.pc \in Reading /\ k.on = s
         \/ ~m.reading /\ co[c].pc \in Reading /\ co[c].on = s /\ k.pc \notin Reading,
         k.pc = "body" => /\ co[c].pc = "reading" /\ co[c].on = s
                          /\ k.target = NoCall \/ \E e \in Members(conn[s].calls) : k.target = e.call
  PROVE  Calm(c, s)
<1>1. conn'[s] = m /\ \A x \in Conns \ {s} : conn'[x] = conn[x]
  BY DEF TypeOK
<1>2. /\ co'[c].pc = k.pc /\ co'[c].on = k.on /\ co'[c].epoch = k.epoch /\ co'[c].id = k.id
      /\ co'[c].target = k.target /\ co'[c].live = k.live /\ (co'[c].done <=> k.done)
      /\ \A d \in Coroutines \ {c} : Same(co'[d], co[d]) /\ (co'[d].done <=> co[d].done)
  BY DEF Alike, Same
<1>3. TakesRead(c, s) \/ KeepsRead(c, s) \/ LetsReadGo(c, s)
  BY <1>1, <1>2 DEF TakesRead, KeepsRead, LetsReadGo
<1>4. StaysOpen(c, s)
  BY <1>1, <1>2 DEF StaysOpen
<1>5. Untouched(c, s)
  BY <1>1, <1>2 DEF Untouched, Stays
<1> QED
  BY <1>1, <1>2, <1>3, <1>4, <1>5 DEF Calm

\* What holds of a coroutine, and of where it is.
LEMMA HereLive ==
  ASSUME MuxInv, CallsLive, NEW c \in Coroutines
  PROVE  /\ TypeOK /\ OnOwn /\ co[c] \in CoStates
         /\ co[c].live <=> co[c].pc # "idle"
         /\ co[c].pc \in Unsent => ~co[c].done
         /\ co[c].pc \notin {"idle", "get"} => /\ co[c].on \in Conns /\ conn[co[c].on] \in MuxConns
                                               /\ co[c].on \in Slots \cup {c}
  BY Here DEF MuxInv, CallsLive, CallsUnderWay

\* A new call: not linked yet.
LEMMA SendCalm ==
  ASSUME MuxInv, CallsLive, NEW c \in Coroutines, NEW p \in Peers, Send(c, p)
  PROVE  \E s \in Conns : Calm(c, s)
<1> DEFINE f == FreshCall(co[c])
           k == [f EXCEPT !.want = p, !.try = 1, !.left = f.left - 1, !.timedOut = FALSE]
<1>1. /\ TypeOK /\ OnOwn /\ co[c] \in CoStates /\ c \in Conns
  BY HereLive DEF Conns
<1>2. /\ co' = [co EXCEPT ![c] = k] /\ co[c].pc = "idle" /\ f.left > 0 /\ conn' = [conn EXCEPT ![c] = conn[c]]
  BY <1>1 DEF Send, Runs, TypeOK
<1>3. f \in CoStates /\ f.pc = "get" /\ ~f.done /\ f.live
  BY <1>1, FreshFits
<1> HIDE DEF f
<1>4. k \in CoStates /\ k.pc = "get" /\ ~k.done /\ k.live
  <2>1. f.left - 1 \in 0 .. MaxCalls /\ 1 \in {0, 1, 2} /\ p \in Peers \cup {None}
    BY <1>2, <1>3, MuxAssumption DEF CoStates
  <2> QED
    BY <1>3, <2>1 DEF CoStates
<1> HIDE DEF k
<1>5. Alike(c, k)
  BY <1>1, <1>2, <1>4, AlikeIs
<1>6. Calm(c, c)
  BY <1>1, <1>2, <1>4, <1>5, StayCalm DEF UnderWay, Reading
<1> QED
  BY <1>1, <1>6

\* The turn waited for.
LEMMA GetWaitCalm ==
  ASSUME MuxInv, CallsLive, NEW c \in Coroutines, GetWait(c)
  PROVE  \E s \in Conns : Calm(c, s)
<1>1. PICK s \in Conns : s = Min(Match(c))
  <2>1. Match(c) \subseteq Nat /\ Match(c) # {}
    BY DEF GetWait, Match, Slots
  <2>2. Min(Match(c)) \in Match(c)
    BY <2>1, MinIsIn
  <2> QED
    BY <2>2 DEF Match, Conns
<1> DEFINE m == [conn[s] EXCEPT !.writers = Append(@, c)]
           k == [co[c] EXCEPT !.pc = "turn", !.on = s]
<1>2. /\ TypeOK /\ conn[s] \in MuxConns /\ co[c] \in CoStates
  BY HereLive DEF TypeOK
<1>3. conn' = [conn EXCEPT ![s] = m] /\ co' = [co EXCEPT ![c] = k] /\ co[c].pc = "get"
  BY <1>1, <1>2 DEF GetWait, Runs, TypeOK
<1>4. m.calls = conn[s].calls /\ m.epoch = conn[s].epoch /\ m.open = conn[s].open /\ m.reading = conn[s].reading
  BY <1>2 DEF MuxConns
<1>5. k \in CoStates /\ k.pc = "turn" /\ k.live = co[c].live /\ k.done = co[c].done
  BY <1>2 DEF CoStates, Pcs
<1>6. co[c].live /\ ~co[c].done
  BY <1>3, HereLive DEF Unsent
<1> HIDE DEF m, k
<1>7. Alike(c, k)
  BY <1>2, <1>3, <1>5, AlikeIs
<1>8. Calm(c, s)
  BY <1>2, <1>3, <1>4, <1>5, <1>6, <1>7, StayCalm DEF UnderWay, Reading
<1> QED
  BY <1>8

\* The turn waited for again.
LEMMA TurnAgainCalm ==
  ASSUME MuxInv, CallsLive, NEW c \in Coroutines, TurnAgain(c)
  PROVE  \E s \in Conns : Calm(c, s)
<1>1. PICK s \in Conns : s = co[c].on
  BY HereLive DEF TurnAgain, Runs
<1> DEFINE m == [conn[s] EXCEPT !.writers = Append(@, c)]
           k == [co[c] EXCEPT !.ready = FALSE]
<1>2. /\ TypeOK /\ conn[s] \in MuxConns /\ co[c] \in CoStates
  BY HereLive DEF TypeOK
<1>3. conn' = [conn EXCEPT ![s] = m] /\ co' = [co EXCEPT ![c] = k] /\ co[c].pc = "turn"
  BY <1>1, <1>2 DEF TurnAgain, Runs, TypeOK
<1>4. m.calls = conn[s].calls /\ m.epoch = conn[s].epoch /\ m.open = conn[s].open /\ m.reading = conn[s].reading
  BY <1>2 DEF MuxConns
<1>5. k \in CoStates /\ k.pc = "turn" /\ k.live = co[c].live /\ k.done = co[c].done
  BY <1>2, <1>3 DEF CoStates
<1>6. co[c].live /\ ~co[c].done
  BY <1>3, HereLive DEF Unsent
<1> HIDE DEF m, k
<1>7. Alike(c, k)
  BY <1>2, <1>3, <1>5, AlikeIs
<1>8. Calm(c, s)
  BY <1>2, <1>3, <1>4, <1>5, <1>6, <1>7, StayCalm DEF UnderWay, Reading
<1> QED
  BY <1>8

\* The turn, on a connection that could not be made.
LEMMA TurnClosedCalm ==
  ASSUME MuxInv, CallsLive, NEW c \in Coroutines, TurnClosed(c)
  PROVE  \E s \in Conns : Calm(c, s)
<1>1. PICK s \in Conns : s = co[c].on
  BY HereLive DEF TurnClosed, Runs
<1> DEFINE m == Released(conn[s])
           k == StartFails(co[c])
<1>2. /\ TypeOK /\ conn[s] \in MuxConns /\ co[c] \in CoStates
  BY HereLive DEF TypeOK
<1>3. /\ conn' = [conn EXCEPT ![s] = m] /\ co' = Others(c, k, {}, "none", Woken(conn[s]))
      /\ co[c].pc = "turn"
  BY <1>1 DEF TurnClosed, Runs
<1>4. m.calls = conn[s].calls /\ m.epoch = conn[s].epoch /\ m.open = conn[s].open /\ m.reading = conn[s].reading
  BY <1>2, ReleaseWakes
<1>5. k \in CoStates /\ k.pc = "idle" /\ ~k.live
  BY <1>2, StartFailsFits
<1> HIDE DEF m, k
<1>6. Alike(c, k)
  BY <1>2, <1>3, <1>5, AlikeIs
<1>7. Calm(c, s)
  BY <1>2, <1>3, <1>4, <1>5, <1>6, StayCalm DEF UnderWay, Reading, Unsent
<1> QED
  BY <1>7

\* The connect failed: the read turn is let go.
LEMMA ConnectFailsCalm ==
  ASSUME MuxInv, CallsLive, NEW c \in Coroutines, ConnectFails(c)
  PROVE  \E s \in Conns : Calm(c, s)
<1>1. PICK s \in Conns : s = co[c].on
  BY HereLive DEF ConnectFails, Runs
<1> DEFINE l == [conn[s] EXCEPT !.reading = FALSE]
           m == Released(l)
           k == StartFails(co[c])
<1>2. /\ TypeOK /\ conn[s] \in MuxConns /\ co[c] \in CoStates
  BY HereLive DEF TypeOK
<1>3. /\ conn' = [conn EXCEPT ![s] = m] /\ co' = Others(c, k, {}, "none", Woken(conn[s]))
      /\ co[c].pc = "connect"
  BY <1>1, <1>2 DEF ConnectFails, Runs, TypeOK
<1>4. /\ l \in MuxConns /\ l.calls = conn[s].calls
      /\ l.epoch = conn[s].epoch /\ l.open = conn[s].open /\ ~l.reading
  BY <1>2 DEF MuxConns
<1> HIDE DEF l
<1>5. m.calls = l.calls /\ m.epoch = l.epoch /\ m.open = l.open /\ m.reading = l.reading
  BY <1>4, ReleaseWakes
<1>6. k \in CoStates /\ k.pc = "idle" /\ ~k.live
  BY <1>2, StartFailsFits
<1> HIDE DEF m, k
<1>7. Alike(c, k)
  BY <1>2, <1>3, <1>6, AlikeIs
<1>8. Calm(c, s)
  BY <1>1, <1>2, <1>3, <1>4, <1>5, <1>6, <1>7, StayCalm DEF UnderWay, Reading, Unsent
<1> QED
  BY <1>8

\* The request written.
LEMMA SentCalm ==
  ASSUME MuxInv, CallsLive, NEW c \in Coroutines, Sent(c)
  PROVE  \E s \in Conns : Calm(c, s)
<1>1. PICK s \in Conns : s = co[c].on
  BY HereLive DEF Sent, Runs
<1> DEFINE m == Released(conn[s])
           k == [co[c] EXCEPT !.pc = "wait"]
<1>2. /\ TypeOK /\ conn[s] \in MuxConns /\ co[c] \in CoStates
  BY HereLive DEF TypeOK
<1>3. /\ conn' = [conn EXCEPT ![s] = m] /\ co' = Others(c, k, {}, "none", Woken(conn[s]))
      /\ co[c].pc = "sending"
  BY <1>1 DEF Sent, Runs
<1>4. m.calls = conn[s].calls /\ m.epoch = conn[s].epoch /\ m.open = conn[s].open /\ m.reading = conn[s].reading
  BY <1>2, ReleaseWakes
<1>5. /\ k \in CoStates /\ k.pc = "wait" /\ k.on = co[c].on /\ k.id = co[c].id
      /\ k.live = co[c].live /\ k.done = co[c].done
  BY <1>2 DEF CoStates, Pcs
<1>6. co[c].live
  BY <1>3, HereLive
<1> HIDE DEF m, k
<1>7. Alike(c, k)
  BY <1>2, <1>3, <1>5, AlikeIs
<1>8. Calm(c, s)
  BY <1>2, <1>3, <1>4, <1>5, <1>6, <1>7, StayCalm DEF UnderWay, Reading, Unsent
<1> QED
  BY <1>8

\* The wait: parked, woken, or reading for the others.
LEMMA WaitCalm ==
  ASSUME MuxInv, CallsLive, NEW c \in Coroutines, Park(c) \/ Unpark(c)
  PROVE  \E s \in Conns : Calm(c, s)
<1>1. PICK s \in Conns : s = co[c].on
  BY HereLive DEF Park, Unpark, Runs
<1>2. /\ TypeOK /\ conn[s] \in MuxConns /\ co[c] \in CoStates
  BY HereLive DEF TypeOK
<1>3. PICK pc \in {"wait", "parked"}, expired \in BOOLEAN :
        co' = [co EXCEPT ![c] = [co[c] EXCEPT !.pc = pc, !.ready = FALSE, !.expired = expired]]
  <2>0. co[c].expired \in BOOLEAN /\ co[c] = [co[c] EXCEPT !.expired = co[c].expired]
    BY <1>2 DEF CoStates
  <2>1. CASE co' = [co EXCEPT ![c].pc = "parked", ![c].ready = FALSE]
    <3>1. co' = [co EXCEPT ![c] = [co[c] EXCEPT !.pc = "parked", !.ready = FALSE, !.expired = co[c].expired]]
      BY <1>2, <2>1 DEF TypeOK, CoStates
    <3> QED
      BY <2>0, <3>1
  <2>2. CASE co' = [co EXCEPT ![c].pc = "wait", ![c].ready = FALSE]
    <3>1. co' = [co EXCEPT ![c] = [co[c] EXCEPT !.pc = "wait", !.ready = FALSE, !.expired = co[c].expired]]
      BY <1>2, <2>2 DEF TypeOK, CoStates
    <3> QED
      BY <2>0, <3>1
  <2>3. CASE co' = [co EXCEPT ![c].pc = "wait", ![c].ready = FALSE, ![c].expired = TRUE]
    BY <1>2, <2>3 DEF TypeOK
  <2> QED
    BY <2>1, <2>2, <2>3 DEF Park, Unpark
<1> DEFINE k == [co[c] EXCEPT !.pc = pc, !.ready = FALSE, !.expired = expired]
<1>4. conn' = [conn EXCEPT ![s] = conn[s]] /\ co[c].pc \in {"wait", "parked"}
  BY <1>2 DEF Park, Unpark, Runs, TypeOK
<1>5. /\ k \in CoStates /\ k.pc \in {"wait", "parked"} /\ k.on = co[c].on /\ k.id = co[c].id
      /\ k.live = co[c].live /\ k.done = co[c].done
  <2>1. k \in CoStates
    BY <1>2 DEF CoStates, Pcs
  <2> QED
    BY <1>2, <2>1 DEF CoStates
<1>6. co[c].live
  BY <1>4, HereLive
<1>7. co' = [co EXCEPT ![c] = k]
  BY <1>3
<1> HIDE DEF k
<1>8. Alike(c, k)
  BY <1>2, <1>5, <1>7, AlikeIs
<1>9. Calm(c, s)
  BY <1>2, <1>4, <1>5, <1>6, <1>8, StayCalm DEF UnderWay, Reading, Unsent
<1> QED
  BY <1>9

\* The read turn taken, on a connection that is open: the call that is waited for is
\* in its list.
LEMMA ReadTurnCalm ==
  ASSUME MuxInv, CallsLive, NEW c \in Coroutines, ReadTurn(c)
  PROVE  \E s \in Conns : Calm(c, s)
<1>1. PICK s \in Conns : s = co[c].on
  BY HereLive DEF ReadTurn, Runs
<1> DEFINE m == [conn[s] EXCEPT !.reading = TRUE]
           k == [co[c] EXCEPT !.pc = "reading", !.epoch = conn[s].epoch]
<1>2. /\ TypeOK /\ conn[s] \in MuxConns /\ co[c] \in CoStates
  BY HereLive DEF TypeOK
<1>3. /\ conn' = [conn EXCEPT ![s] = m] /\ co' = [co EXCEPT ![c] = k]
      /\ co[c].pc = "wait" /\ ~co[c].done /\ ~conn[s].reading
  BY <1>1, <1>2 DEF ReadTurn, Runs, TypeOK
<1>4. conn[s].open
  <2>1. \E e \in Members(conn[s].calls) : e.call = Call(c)
    BY <1>1, <1>3 DEF CallsLive, CallsUnderWay, UnderWay
  <2>2. conn[s].calls # <<>>
    BY <2>1 DEF Members
  <2> QED
    BY <2>2 DEF CallsLive, NoneClosed
<1>5. m.calls = conn[s].calls /\ m.epoch = conn[s].epoch /\ m.open = conn[s].open /\ m.reading
  BY <1>2 DEF MuxConns
<1>6. /\ k \in CoStates /\ k.pc = "reading" /\ k.on = s /\ k.on = co[c].on /\ k.id = co[c].id
      /\ k.epoch = conn[s].epoch /\ k.live = co[c].live /\ k.done = co[c].done
  <2>1. conn[s].epoch \in Nat /\ "reading" \in Pcs
    BY <1>2 DEF MuxConns, Pcs
  <2> QED
    BY <1>1, <1>2, <2>1 DEF CoStates
<1>7. co[c].live
  BY <1>3, HereLive
<1> HIDE DEF m, k
<1>8. Alike(c, k)
  BY <1>2, <1>3, <1>6, AlikeIs
<1>9. Calm(c, s)
  BY <1>2, <1>3, <1>4, <1>5, <1>6, <1>7, <1>8, StayCalm DEF UnderWay, Reading, Unsent
<1> QED
  BY <1>9

\* The read turn let go: nothing came.
LEMMA ReadExpiresCalm ==
  ASSUME MuxInv, CallsLive, NEW c \in Coroutines, ReadExpires(c)
  PROVE  \E s \in Conns : Calm(c, s)
<1>1. PICK s \in Conns : s = co[c].on
  BY HereLive DEF ReadExpires, Runs
<1> DEFINE m == [conn[s] EXCEPT !.reading = FALSE]
           k == [co[c] EXCEPT !.pc = "wait", !.expired = TRUE]
<1>2. /\ TypeOK /\ conn[s] \in MuxConns /\ co[c] \in CoStates
  BY HereLive DEF TypeOK
<1>3. /\ conn' = [conn EXCEPT ![s] = m] /\ co' = [co EXCEPT ![c] = k] /\ co[c].pc = "reading"
  BY <1>1, <1>2 DEF ReadExpires, Runs, TypeOK
<1>4. m.calls = conn[s].calls /\ m.epoch = conn[s].epoch /\ m.open = conn[s].open /\ ~m.reading
  BY <1>2 DEF MuxConns
<1>5. /\ k \in CoStates /\ k.pc = "wait" /\ k.on = co[c].on /\ k.id = co[c].id
      /\ k.live = co[c].live /\ k.done = co[c].done
  BY <1>2 DEF CoStates, Pcs
<1>6. co[c].live
  BY <1>3, HereLive
<1> HIDE DEF m, k
<1>7. Alike(c, k)
  BY <1>2, <1>3, <1>5, AlikeIs
<1>8. Calm(c, s)
  BY <1>1, <1>2, <1>3, <1>4, <1>5, <1>6, <1>7, StayCalm DEF UnderWay, Reading, Unsent
<1> QED
  BY <1>8

\* A header read: the call is one of the list, or over.
LEMMA ReadHeaderCalm ==
  ASSUME MuxInv, CallsLive, NEW c \in Coroutines, ReadHeader(c)
  PROVE  \E s \in Conns : Calm(c, s)
<1>1. PICK s \in Conns : s = co[c].on
  BY HereLive DEF ReadHeader, Runs
<1>2. /\ TypeOK /\ conn[s] \in MuxConns /\ co[c] \in CoStates
  BY HereLive DEF TypeOK
<1>3. /\ co[c].pc = "reading" /\ conn' = [conn EXCEPT ![s] = conn[s]]
      /\ conn[s].open /\ conn[s].epoch = co[c].epoch
  BY <1>1, <1>2 DEF ReadHeader, Runs, SameConn, TypeOK
<1>4. PICK f \in flight :
        LET mine == {i \in DOMAIN conn[co[c].on].calls :
                       conn[co[c].on].calls[i].correlation = f.correlation}
            target == IF mine = {} THEN NoCall ELSE conn[co[c].on].calls[Min(mine)].call
        IN co' = [co EXCEPT ![c].pc = "body", ![c].frame = f.call, ![c].target = target]
  BY DEF ReadHeader
<1> DEFINE mine == {i \in DOMAIN conn[s].calls : conn[s].calls[i].correlation = f.correlation}
           target == IF mine = {} THEN NoCall ELSE conn[s].calls[Min(mine)].call
<1>5. f.call \in AllCalls
  BY <1>2 DEF TypeOK, Requests
<1>6. /\ target \in AllCalls \cup {NoCall}
      /\ target = NoCall \/ \E e \in Members(conn[s].calls) : target = e.call
  <2>1. conn[s].calls \in Seq(Entries)
    BY <1>2, EntriesOf
  <2>2. CASE mine # {}
    <3>1. mine \subseteq Nat
      BY <2>1, LenProperties
    <3>2. Min(mine) \in mine
      <4> HIDE DEF mine
      <4> QED
        BY <2>2, <3>1, MinIsIn
    <3>3. PICK i \in DOMAIN conn[s].calls : i = Min(mine)
      BY <3>2
    <3>4. target = conn[s].calls[i].call
      BY <2>2, <3>3
    <3>5. conn[s].calls[i] \in Entries /\ conn[s].calls[i] \in Members(conn[s].calls)
      BY <2>1, ElementOfSeq, LenProperties DEF Members
    <3> QED
      BY <3>4, <3>5 DEF Entries
  <2> QED
    BY <2>2
<1>7. co' = [co EXCEPT ![c].pc = "body", ![c].frame = f.call, ![c].target = target]
  BY <1>1, <1>4
<1> HIDE DEF target
<1> DEFINE k == [co[c] EXCEPT !.pc = "body", !.frame = f.call, !.target = target]
<1>8. co' = [co EXCEPT ![c] = k]
  BY <1>2, <1>7 DEF TypeOK
<1>9. /\ k \in CoStates /\ k.pc = "body" /\ k.on = co[c].on /\ k.id = co[c].id
      /\ k.epoch = co[c].epoch /\ k.live = co[c].live /\ k.done = co[c].done /\ k.target = target
  <2>1. k \in CoStates
    BY <1>2, <1>5, <1>6 DEF CoStates, Pcs
  <2> QED
    BY <1>2, <2>1 DEF CoStates
<1>10. co[c].live
  BY <1>3, HereLive
<1> HIDE DEF k
<1>11. Alike(c, k)
  BY <1>2, <1>8, <1>9, AlikeIs
<1>12. Calm(c, s)
  BY <1>1, <1>2, <1>3, <1>6, <1>9, <1>10, <1>11, StayCalm DEF UnderWay, Reading, Unsent
<1> QED
  BY <1>12

\* A call linked on an open connection.
LEMMA JoinCalm ==
  ASSUME MuxInv, CallsLive, NEW c \in Coroutines, NEW s \in Conns,
         conn[s].open, co[c].pc \in {"get", "turn"},
         conn' = [conn EXCEPT ![s] = [Linked(c, @) EXCEPT !.writing = TRUE]],
         co' = [co EXCEPT ![c] = Sending(@, s, conn[s], TRUE)], flight' = flight
  PROVE  Calm(c, s)
<1> DEFINE l == Linked(c, conn[s])
           m == [l EXCEPT !.writing = TRUE]
           k == Sending(co[c], s, conn[s], TRUE)
<1>1. TypeOK /\ conn[s] \in MuxConns /\ co[c] \in CoStates /\ co[c].live /\ ~co[c].done
  BY HereLive DEF TypeOK, Unsent
<1>2. conn' = [conn EXCEPT ![s] = m] /\ co' = [co EXCEPT ![c] = k]
  BY <1>1 DEF TypeOK
<1>3. /\ l \in MuxConns
      /\ l.calls = <<[call |-> Call(c), correlation |-> conn[s].correlation + 1]>> \o conn[s].calls
      /\ l.correlation = conn[s].correlation + 1 /\ l.epoch = conn[s].epoch /\ l.open = conn[s].open
      /\ l.reading = conn[s].reading
  BY <1>1, LinkedFits
<1>4. /\ k \in CoStates /\ k.pc = "sending" /\ k.on = s /\ k.epoch = conn[s].epoch
      /\ k.id = co[c].id /\ k.done = co[c].done /\ k.live = co[c].live
  <2>1. s \in Conns /\ conn[s] \in MuxConns /\ co[c] \in CoStates /\ TRUE \in BOOLEAN
    BY <1>1
  <2> QED
    BY ONLY <2>1, SendingFits
<1> HIDE DEF l, k
<1>5. /\ m.calls = l.calls /\ m.correlation = l.correlation /\ m.epoch = l.epoch
      /\ m.open = l.open /\ m.reading = l.reading
  BY <1>3 DEF MuxConns
<1> HIDE DEF m
<1>6. Alike(c, k)
  BY <1>1, <1>2, <1>4, AlikeIs
<1>7. conn'[s] = m /\ \A x \in Conns \ {s} : conn'[x] = conn[x]
  BY <1>1, <1>2 DEF TypeOK
<1>8. /\ co'[c].pc = "sending" /\ co'[c].on = s /\ co'[c].epoch = conn[s].epoch /\ co'[c].id = co[c].id
      /\ co'[c].live /\ ~co'[c].done
      /\ \A d \in Coroutines \ {c} : Same(co'[d], co[d]) /\ (co'[d].done <=> co[d].done)
  BY <1>1, <1>4, <1>6 DEF Alike, Same
<1>9. KeepsRead(c, s)
  BY <1>3, <1>5, <1>7, <1>8 DEF KeepsRead, Reading
<1>10. StaysOpen(c, s)
  BY <1>3, <1>5, <1>7, <1>8 DEF StaysOpen
<1>11. Joins(c, s)
  <2>1. conn[s].correlation + 1 \in Nat
    BY <1>1 DEF MuxConns
  <2>2. LinksTo(c, s, conn[s].correlation + 1)
    BY <1>3, <1>5, <1>7, <1>8 DEF LinksTo
  <2> QED
    BY <1>8, <2>1, <2>2 DEF Joins, UnderWay
<1> QED
  BY <1>7, <1>8, <1>9, <1>10, <1>11 DEF Calm

\* The write turn found free.
LEMMA GetTurnCalm ==
  ASSUME MuxInv, CallsLive, NEW c \in Coroutines, GetTurn(c) \/ TurnTaken(c)
  PROVE  \E s \in Conns : Calm(c, s)
<1>1. CASE GetTurn(c)
  <2>1. Match(c) \subseteq Nat /\ Match(c) # {}
    BY <1>1 DEF GetTurn, Match, Slots
  <2>2. PICK s \in Conns : s = Min(Match(c)) /\ (conn[s].open \/ conn[s].writing)
    <3>1. Min(Match(c)) \in Match(c)
      BY <2>1, MinIsIn
    <3> QED
      BY <3>1 DEF Match, Conns
  <2>3. /\ conn[s].open /\ co[c].pc = "get"
        /\ conn' = [conn EXCEPT ![s] = [Linked(c, @) EXCEPT !.writing = TRUE]]
        /\ co' = [co EXCEPT ![c] = Sending(@, s, conn[s], TRUE)] /\ flight' = flight
    BY <1>1, <2>2 DEF GetTurn, Runs
  <2>4. Calm(c, s)
    BY <2>3, JoinCalm
  <2> QED
    BY <2>4
<1>2. CASE TurnTaken(c)
  <2>1. PICK s \in Conns : s = co[c].on
    BY <1>2, HereLive DEF TurnTaken, Runs
  <2>2. /\ conn[s].open /\ co[c].pc = "turn"
        /\ conn' = [conn EXCEPT ![s] = [Linked(c, @) EXCEPT !.writing = TRUE]]
        /\ co' = [co EXCEPT ![c] = Sending(@, s, conn[s], TRUE)] /\ flight' = flight
    BY <1>2, <2>1 DEF TurnTaken, Runs
  <2>3. Calm(c, s)
    BY <2>2, JoinCalm
  <2> QED
    BY <2>3
<1> QED
  BY <1>1, <1>2

\* Connected: open anew, where nobody reads or writes but the connecter.
LEMMA ConnectedCalm ==
  ASSUME MuxInv, CallsLive, NEW c \in Coroutines, Connected(c)
  PROVE  \E s \in Conns : Calm(c, s)
<1>1. PICK s \in Conns : s = co[c].on
  BY HereLive DEF Connected, Runs
<1> DEFINE n == [conn[s] EXCEPT !.open = TRUE, !.epoch = @ + 1, !.reading = FALSE, !.correlation = 0]
           m == Linked(c, n)
           k == Sending(co[c], s, n, FALSE)
<1>2. TypeOK /\ conn[s] \in MuxConns /\ co[c] \in CoStates
  BY HereLive DEF TypeOK
<1>3. /\ conn' = [conn EXCEPT ![s] = m] /\ co' = [co EXCEPT ![c] = k] /\ co[c].pc = "connect"
      /\ flight' = flight
  BY <1>1, <1>2 DEF Connected, Runs, TypeOK
<1>4. n \in MuxConns /\ n.calls = conn[s].calls /\ n.correlation = 0 /\ n.open /\ ~n.reading
  <2>1. conn[s].epoch + 1 \in Nat /\ 0 \in Nat
    BY <1>2 DEF MuxConns
  <2>2. n \in MuxConns
    BY <1>2, <2>1 DEF MuxConns
  <2> QED
    BY <1>2, <2>2 DEF MuxConns
<1> HIDE DEF n
<1>5. /\ m.correlation = 1 /\ m.epoch = n.epoch /\ m.open = n.open /\ m.reading = n.reading
      /\ m.calls = <<[call |-> Call(c), correlation |-> 1]>> \o conn[s].calls
  <2>1. n.correlation + 1 = 1
    BY <1>4
  <2>2. TypeOK /\ c \in Coroutines /\ n \in MuxConns
    BY <1>2, <1>4
  <2>3. /\ m.calls = <<[call |-> Call(c), correlation |-> n.correlation + 1]>> \o n.calls
        /\ m.correlation = n.correlation + 1 /\ m.epoch = n.epoch /\ m.open = n.open /\ m.reading = n.reading
    BY ONLY <2>2, LinkedFits
  <2> HIDE DEF m
  <2> QED
    BY <1>4, <2>1, <2>3
<1>6. /\ k \in CoStates /\ k.pc = "sending" /\ k.on = s /\ k.epoch = n.epoch
      /\ k.id = co[c].id /\ k.done = co[c].done /\ k.live = co[c].live
  <2>1. s \in Conns /\ n \in MuxConns /\ co[c] \in CoStates /\ FALSE \in BOOLEAN
    BY <1>2, <1>4
  <2> QED
    BY ONLY <2>1, SendingFits
<1> HIDE DEF m, k
<1>7. Alike(c, k)
  BY <1>2, <1>3, <1>6, AlikeIs
<1>8. conn'[s] = m /\ \A x \in Conns \ {s} : conn'[x] = conn[x]
  BY <1>2, <1>3 DEF TypeOK
<1>9. co[c].live /\ ~co[c].done
  BY <1>3, HereLive DEF Unsent
<1>10. /\ co'[c].pc = "sending" /\ co'[c].on = s /\ co'[c].epoch = n.epoch /\ co'[c].id = co[c].id
       /\ co'[c].live /\ ~co'[c].done
       /\ \A d \in Coroutines \ {c} : Same(co'[d], co[d]) /\ (co'[d].done <=> co[d].done)
  BY <1>6, <1>7, <1>9 DEF Alike, Same
<1>11. LetsReadGo(c, s)
  BY <1>1, <1>3, <1>4, <1>5, <1>8, <1>10 DEF LetsReadGo, Reading
<1>12. IsOpened(c, s)
  BY <1>1, <1>3, <1>4, <1>5, <1>8, <1>10 DEF IsOpened
<1>13. Joins(c, s)
  <2>1. LinksTo(c, s, 1)
    BY <1>3, <1>5, <1>8, <1>10 DEF LinksTo
  <2> QED
    BY <1>3, <1>10, <2>1 DEF Joins, UnderWay
<1> QED
  BY <1>8, <1>10, <1>11, <1>12, <1>13 DEF Calm

\* A connection named: one that nobody uses, with no call waited for on it.
LEMMA GetConnectCalm ==
  ASSUME MuxInv, CallsLive, NEW c \in Coroutines, GetConnect(c)
  PROVE  \E s \in Conns : Calm(c, s)
<1>1. /\ TypeOK /\ OnOwn /\ co[c] \in CoStates /\ co[c].pc = "get" /\ co[c].live /\ ~co[c].done
      /\ WriteTurnHeld /\ ReadTurnHeld /\ NoneClosed /\ CallsUnderWay
  BY HereLive DEF GetConnect, Runs, Unsent, MuxInv, CallsLive
<1>2. PICK s \in Conns :
        /\ s = IF Free # {} THEN Min(Free) ELSE IF Idle # {} THEN Min(Idle) ELSE c
        /\ conn[s].calls = <<>> /\ ~conn[s].reading
        /\ \A d \in Coroutines : co[d].pc \in {"sending", "reading", "body"} => co[d].on # s
  <2>1. Free \subseteq Nat /\ Idle \subseteq Nat
    BY DEF Free, Idle, Slots
  <2>2. CASE Free # {}
    <3>1. PICK s \in Slots : s = Min(Free) /\ ~conn[s].open /\ ~conn[s].writing /\ conn[s].calls = <<>>
      <4>1. Min(Free) \in Free
        BY <2>1, <2>2, MinIsIn
      <4> QED
        BY <4>1 DEF Free
    <3>2. s \in Conns
      BY DEF Conns
    <3>3. \A d \in Coroutines : co[d].pc \in {"sending", "reading", "body"} => co[d].on # s
      BY <1>1, <3>1 DEF NoneClosed, SameConn
    <3>4. \A d \in Coroutines : co[d].pc = "connect" => co[d].on # s
      BY <1>1, <3>1, <3>2 DEF WriteTurnHeld
    <3>5. ~conn[s].reading
      BY <1>1, <3>2, <3>3, <3>4 DEF ReadTurnHeld
    <3> QED
      BY <2>2, <3>1, <3>2, <3>3, <3>5
  <2>3. CASE Free = {} /\ Idle # {}
    <3>1. PICK s \in Slots : s = Min(Idle) /\ conn[s].calls = <<>> /\ ~conn[s].writing /\ ~conn[s].reading
      <4>1. Min(Idle) \in Idle
        BY <2>1, <2>3, MinIsIn
      <4> QED
        BY <4>1 DEF Idle
    <3>2. s \in Conns
      BY DEF Conns
    <3>3. \A d \in Coroutines : co[d].pc \in {"sending", "reading", "body"} => co[d].on # s
      BY <1>1, <3>1, <3>2 DEF WriteTurnHeld, ReadTurnHeld
    <3> QED
      BY <2>3, <3>1, <3>2, <3>3
  <2>4. CASE Free = {} /\ Idle = {}
    <3>1. c \in Conns /\ c \notin Slots /\ c # None
      BY MuxAssumption DEF Conns
    <3>2. \A d \in Coroutines : co[d].on = c => d = c
      BY <1>1, <3>1 DEF OnOwn
    <3>3. \A d \in Coroutines : co[d].pc \in {"sending", "reading", "body"} => co[d].on # c
      BY <1>1, <3>2
    <3>4. ~conn[c].reading
      BY <1>1, <3>1, <3>2 DEF ReadTurnHeld
    <3>5. conn[c].calls = <<>>
      <4>1. \A e \in Members(conn[c].calls) : FALSE
        BY <1>1, <3>1, <3>2, WhoseEntry DEF UnderWay
      <4>2. conn[c].calls \in Seq(Entries)
        BY <1>1, <3>1, EntriesOf
      <4>3. SUFFICES ASSUME conn[c].calls # <<>> PROVE FALSE
        OBVIOUS
      <4>4. 1 \in DOMAIN conn[c].calls
        BY <4>2, <4>3, EmptySeq, LenProperties
      <4> QED
        BY <4>1, <4>4 DEF Members
    <3> QED
      BY <2>4, <3>1, <3>3, <3>4, <3>5
  <2> QED
    BY <2>2, <2>3, <2>4
<1> DEFINE m == [conn[s] EXCEPT !.open = FALSE, !.peer = co[c].want, !.calls = <<>>,
                                !.writing = TRUE, !.reading = TRUE]
           k == [co[c] EXCEPT !.pc = "connect", !.on = s]
<1>3. /\ conn' = [conn EXCEPT ![s].open = FALSE, ![s].peer = co[c].want,
                              ![s].calls = <<>>, ![s].writing = TRUE, ![s].reading = TRUE]
      /\ co' = [co EXCEPT ![c].pc = "connect", ![c].on = s]
  BY <1>2 DEF GetConnect
<1>4. conn' = [conn EXCEPT ![s] = m] /\ co' = [co EXCEPT ![c] = k]
  BY <1>1, <1>3 DEF TypeOK
<1>5. m.calls = <<>> /\ m.open = FALSE /\ m.reading = TRUE
  BY <1>1 DEF MuxConns, TypeOK
<1>6. k \in CoStates /\ k.pc = "connect" /\ k.on = s /\ k.done = co[c].done /\ k.live = co[c].live
  BY <1>1 DEF CoStates, Pcs
<1> HIDE DEF m, k
<1>7. Alike(c, k)
  BY <1>1, <1>4, <1>6, AlikeIs
<1>8. conn'[s] = m /\ \A x \in Conns \ {s} : conn'[x] = conn[x]
  BY <1>1, <1>4 DEF TypeOK
<1>9. /\ co'[c].pc = "connect" /\ co'[c].on = s /\ co'[c].live /\ ~co'[c].done
      /\ \A d \in Coroutines \ {c} : Same(co'[d], co[d]) /\ (co'[d].done <=> co[d].done)
  BY <1>1, <1>6, <1>7 DEF Alike, Same
<1>10. TakesRead(c, s)
  BY <1>1, <1>2, <1>5, <1>8, <1>9 DEF TakesRead, Reading
<1>11. IsClosed(c, s)
  BY <1>2, <1>5, <1>8, <1>9 DEF IsClosed
<1>12. Untouched(c, s)
  BY <1>1, <1>2, <1>5, <1>8, <1>9 DEF Untouched, Stays, UnderWay
<1> QED
  BY <1>8, <1>9, <1>10, <1>11, <1>12 DEF Calm

\* The answer in: its call is done, or was over before.
LEMMA ReadBodyCalm ==
  ASSUME MuxInv, CallsLive, NEW c \in Coroutines, ReadBody(c)
  PROVE  \E s \in Conns : Calm(c, s)
<1>1. PICK s \in Conns : s = co[c].on
  BY HereLive DEF ReadBody, Runs
<1> DEFINE t == co[c].target
           d == t.co
           b == [co[c] EXCEPT !.pc = "wait", !.target = NoCall, !.frame = NoCall]
           q == IF t = NoCall THEN conn[s].calls ELSE Without(conn[s].calls, t)
           m == [conn[s] EXCEPT !.reading = FALSE, !.calls = q]
<1>2. /\ TypeOK /\ conn[s] \in MuxConns /\ co[c] \in CoStates /\ co[c].pc = "body" /\ co[c].live
      /\ CallsUnderWay
  BY HereLive DEF ReadBody, Runs, TypeOK, CallsLive
<1>3. /\ b \in CoStates /\ b.pc = "wait" /\ b.on = s /\ b.id = co[c].id /\ b.live = co[c].live
      /\ b.done = co[c].done
  <2>1. b \in CoStates
    BY <1>2, BackFits
  <2> QED
    BY <1>1, <1>2, <2>1 DEF CoStates
<1>4. conn' = [conn EXCEPT ![s] = m]
  <2>1. m = [conn[s] EXCEPT !.reading = FALSE, !.calls = IF t = NoCall THEN @ ELSE Without(@, t)]
    OBVIOUS
  <2>2. conn' = [conn EXCEPT ![s].reading = FALSE, ![s].calls = IF t = NoCall THEN @ ELSE Without(@, t)]
    BY <1>1 DEF ReadBody
  <2> QED
    BY <1>2, <2>1, <2>2 DEF TypeOK
<1>5. conn[s].open /\ conn[s].epoch = co[c].epoch
  BY <1>1 DEF ReadBody, SameConn
<1>6. \/ (t = NoCall \/ ~Live(t)) /\ co' = [co EXCEPT ![c] = b]
      \/ t # NoCall /\ Live(t) /\ co' = [Others(c, b, {d}, "none", {}) EXCEPT ![d].answer = co[c].frame]
  BY DEF ReadBody
<1> HIDE DEF b, q
<1>7. /\ m.calls = q /\ m.epoch = conn[s].epoch /\ m.open = conn[s].open /\ ~m.reading
  BY <1>2 DEF MuxConns
<1> HIDE DEF m
<1>8. conn'[s] = m /\ \A x \in Conns \ {s} : conn'[x] = conn[x]
  BY <1>2, <1>4 DEF TypeOK
<1>9. CASE (t = NoCall \/ ~Live(t)) /\ co' = [co EXCEPT ![c] = b]
  <2>1. q = conn[s].calls
    <3>1. CASE t = NoCall
      BY <3>1 DEF q
    <3>2. CASE t # NoCall /\ ~Live(t)
      <4>1. \A e \in Members(conn[s].calls) : e.call # t
        BY <1>2, <3>2 DEF CallsUnderWay
      <4>2. {i \in DOMAIN conn[s].calls : conn[s].calls[i].call = t} = {}
        BY <4>1 DEF Members
      <4> QED
        BY <3>2, <4>2 DEF q, Without
    <3> QED
      BY <1>9, <3>1, <3>2
  <2>2. Alike(c, b)
    BY <1>2, <1>3, <1>9, AlikeIs
  <2>3. Calm(c, s)
    BY <1>1, <1>2, <1>3, <1>4, <1>5, <1>7, <2>1, <2>2, StayCalm DEF UnderWay, Reading, Unsent
  <2> QED
    BY <2>3
<1>10. CASE t # NoCall /\ Live(t) /\ co' = [Others(c, b, {d}, "none", {}) EXCEPT ![d].answer = co[c].frame]
  <2>1. PICK o : o = Others(c, b, {d}, "none", {})
    OBVIOUS
  <2>2. AreOthers(o, c, b, {d}, {})
    BY <1>2, <1>3, <2>1, OthersAre DEF Errors
  <2>3. t \in AllCalls /\ d \in Coroutines
    <3>1. t \in AllCalls
      BY <1>2, <1>10 DEF CoStates
    <3> QED
      BY <3>1 DEF AllCalls
  <2>4. o \in [Coroutines -> CoStates] /\ o[d] \in CoStates
    BY <2>2, <2>3 DEF AreOthers
  <2>5. co' = [o EXCEPT ![d].answer = co[c].frame]
    BY <1>10, <2>1
  <2>6. /\ Same(co'[d], o[d]) /\ co'[d].done = o[d].done
        /\ \A x \in Coroutines \ {d} : co'[x] = o[x]
    BY <2>3, <2>4, <2>5 DEF Same, CoStates
  <2>7. \A x \in Coroutines : Same(co'[x], o[x]) /\ co'[x].done = o[x].done
    BY <2>6 DEF Same
  <2>8. q = Without(conn[s].calls, t)
    BY <1>10 DEF q
  <2> HIDE DEF t, d
  <2>9. /\ co'[c].pc = "wait" /\ co'[c].on = s /\ co'[c].id = co[c].id /\ co'[c].live
        /\ \A x \in Coroutines \ {c} : Same(co'[x], co[x])
        /\ \A x \in Coroutines : co'[x].done <=> co[x].done \/ x = d
    <3>1. \A x \in Coroutines \ {c} : Same(co'[x], co[x]) /\ (co'[x].done <=> co[x].done \/ x = d)
      BY <2>2, <2>7 DEF AreOthers, Same
    <3>2. Same(co'[c], b) /\ (co'[c].done <=> co[c].done \/ c = d)
      BY <1>3, <2>2, <2>7 DEF AreOthers, Same
    <3> QED
      BY <1>2, <1>3, <3>1, <3>2 DEF Same
  <2>10. Answers(c, s)
    BY <1>1, <1>2, <1>7, <1>8, <1>10, <2>8, <2>9 DEF Answers, t, d
  <2>11. LetsReadGo(c, s)
    BY <1>1, <1>2, <1>7, <1>8, <2>9 DEF LetsReadGo, Reading
  <2>12. StaysOpen(c, s)
    BY <1>5, <1>7, <1>8, <2>9 DEF StaysOpen
  <2>13. Calm(c, s)
    BY <1>8, <2>9, <2>10, <2>11, <2>12 DEF Calm, Unsent
  <2> QED
    BY <2>13
<1> QED
  BY <1>6, <1>9, <1>10

\* The wait over: the call is out of the list, done or not.
LEMMA WaitEndCalm ==
  ASSUME MuxInv, CallsLive, NEW c \in Coroutines, WaitEnd(c)
  PROVE  \E s \in Conns : Calm(c, s)
<1>1. PICK s \in Conns : s = co[c].on /\ s \in Slots \cup {c}
  BY HereLive DEF WaitEnd, Runs
<1> DEFINE error == IF co[c].done THEN co[c].error ELSE "timed out"
           q == IF co[c].done THEN conn[s].calls ELSE Without(conn[s].calls, Call(c))
           l == [conn[s] EXCEPT !.calls = q]
           m == IF s = c /\ l.calls = <<>> THEN [l EXCEPT !.open = FALSE] ELSE l
           retried == error = "connection closed" /\ co[c].reused /\ co[c].try = 1
           after == [co[c] EXCEPT !.live = FALSE, !.on = None, !.ready = FALSE, !.done = TRUE,
                                  !.error = error, !.pc = "idle"]
           k == IF retried THEN [FreshCall(after) EXCEPT !.try = 2] ELSE after
<1>2. TypeOK /\ OnOwn /\ conn[s] \in MuxConns /\ co[c] \in CoStates
  BY HereLive DEF TypeOK
<1>3. error \in Errors
  BY <1>2 DEF CoStates, Errors
<1>4. conn[s].calls = <<>> => q = <<>>
  <2>1. ASSUME conn[s].calls = <<>> PROVE Without(conn[s].calls, Call(c)) = <<>>
    BY <2>1 DEF Without
  <2> QED
    BY <2>1
<1>5. /\ conn' = [conn EXCEPT ![s] = m]
      /\ co' = Others(c, k, {}, "none", HandedTo(l)) /\ co[c].pc = "wait"
  <2>1. l = [conn[s] EXCEPT !.calls = IF co[c].done THEN @ ELSE Without(@, Call(c))]
    OBVIOUS
  <2> HIDE DEF q
  <2>2. /\ conn' = [conn EXCEPT ![s] = m] /\ co[c].pc = "wait"
    BY <1>1, <2>1, ZenonT(30) DEF WaitEnd, Runs
  <2>3. co' = Others(c, k, {}, "none", HandedTo(l))
    BY <1>1, <2>1 DEF WaitEnd
  <2> QED
    BY <2>2, <2>3 DEF WaitEnd
<1>6. q = IF co[c].done THEN conn[s].calls ELSE Without(conn[s].calls, Call(c))
  OBVIOUS
<1>q. q \in Seq([call : AllCalls, correlation : Nat])
  BY <1>2, EntriesOf, WithoutOne DEF Entries
<1> HIDE DEF q, error
<1>7. /\ l \in MuxConns /\ l.calls = q /\ l.epoch = conn[s].epoch
      /\ l.open = conn[s].open /\ l.reading = conn[s].reading
  BY <1>2, <1>q DEF MuxConns
<1> DEFINE w == HandedTo(l)
<1> HIDE DEF l, w
<1>8. /\ m.calls = q /\ m.epoch = conn[s].epoch /\ m.reading = conn[s].reading
      /\ \/ m.open = conn[s].open
         \/ s = c /\ q = <<>> /\ m.open = FALSE
  <2>1. CASE s = c /\ l.calls = <<>>
    <3>1. m = [l EXCEPT !.open = FALSE]
      BY <2>1
    <3> QED
      BY <1>7, <2>1, <3>1 DEF MuxConns
  <2>2. CASE ~(s = c /\ l.calls = <<>>)
    BY <1>7, <2>2
  <2> QED
    BY <2>1, <2>2
<1>9. after \in CoStates /\ after.pc = "idle" /\ ~after.live
  <2>1. "idle" \in Pcs
    BY DEF Pcs
  <2>2. after \in CoStates
    BY <1>2, <1>3, <2>1 DEF CoStates
  <2> QED
    BY <1>2, <2>2 DEF CoStates
<1> HIDE DEF m, retried, after
<1>10. /\ k \in CoStates /\ k.pc \in {"idle", "get"} /\ (k.live <=> k.pc # "idle")
       /\ k.pc \in Unsent => ~k.done
  <2>1. CASE retried
    <3> DEFINE f == FreshCall(after)
    <3>1. /\ f \in CoStates /\ f.pc = "get" /\ f.live /\ ~f.done
      BY <1>9, FreshFits
    <3> HIDE DEF f
    <3> DEFINE g == [f EXCEPT !.try = 2]
    <3>2. g \in CoStates /\ g.pc = "get" /\ g.live /\ ~g.done
      BY <3>1 DEF CoStates
    <3>3. k = g
      BY <2>1 DEF f
    <3> HIDE DEF g
    <3> QED
      BY <3>2, <3>3
  <2>2. CASE ~retried
    <3>1. k = after
      BY <2>2
    <3> HIDE DEF k
    <3> QED
      BY <1>9, <3>1 DEF Unsent
  <2> QED
    BY <2>1, <2>2
<1> HIDE DEF k
<1>11. Alike(c, k)
  BY <1>2, <1>5, <1>10, AlikeIs
<1>12. conn'[s] = m /\ \A x \in Conns \ {s} : conn'[x] = conn[x]
  BY <1>2, <1>5 DEF TypeOK
<1>13. /\ co'[c].pc \in {"idle", "get"} /\ (co'[c].live <=> co'[c].pc # "idle")
       /\ co'[c].pc \in Unsent => ~co'[c].done
       /\ \A d \in Coroutines \ {c} : Same(co'[d], co[d]) /\ (co'[d].done <=> co[d].done)
  BY <1>10, <1>11 DEF Alike, Same
<1>14. KeepsRead(c, s)
  BY <1>5, <1>8, <1>12, <1>13 DEF KeepsRead, Reading
<1>15. StaysOpen(c, s) \/ IsClosed(c, s)
  <2>1. CASE m.open = conn[s].open
    BY <1>4, <1>8, <1>12, <1>13, <2>1 DEF StaysOpen
  <2>2. CASE s = c /\ q = <<>> /\ m.open = FALSE
    <3>1. \A d \in Coroutines \ {c} : co[d].on # s
      BY <1>2, <2>2, MuxAssumption DEF OnOwn, Conns
    <3> QED
      BY <1>8, <1>12, <1>13, <2>2, <3>1 DEF IsClosed
  <2> QED
    BY <1>8, <2>1, <2>2
<1>16. Ends(c, s)
  BY <1>1, <1>5, <1>6, <1>8, <1>12, <1>13 DEF Ends
<1> QED
  BY <1>12, <1>13, <1>14, <1>15, <1>16 DEF Calm

\* A step of a coroutine is calm: nothing else can fail.
LEMMA StepsCalm ==
  ASSUME MuxInv, CallsLive, ~broken',
         NEW c \in Coroutines, Step(c) \/ \E p \in Peers : Send(c, p)
  PROVE  \E s \in Conns : Calm(c, s)
<1>3. ~SendFails(c) /\ ~ReadHeaderFails(c) /\ ~WaitFails(c) /\ ~ReadBodyFails(c)
  BY DEF SendFails, ReadHeaderFails, WaitFails, ReadBodyFails, ReaderFails
<1>4. CASE \E p \in Peers : Send(c, p)
  BY <1>4, SendCalm
<1>5. CASE GetWait(c) \/ GetTurn(c) \/ GetConnect(c) \/ TurnAgain(c) \/ TurnTaken(c) \/ TurnClosed(c)
  BY <1>5, GetWaitCalm, GetTurnCalm, GetConnectCalm, TurnAgainCalm, TurnClosedCalm
<1>6. CASE Connected(c) \/ ConnectFails(c) \/ Sent(c)
  BY <1>6, ConnectedCalm, ConnectFailsCalm, SentCalm
<1>7. CASE Park(c) \/ Unpark(c) \/ ReadTurn(c) \/ ReadExpires(c) \/ ReadHeader(c) \/ ReadBody(c) \/ WaitEnd(c)
  BY <1>7, WaitCalm, ReadTurnCalm, ReadExpiresCalm, ReadHeaderCalm, ReadBodyCalm, WaitEndCalm
<1> QED
  BY <1>3, <1>4, <1>5, <1>6, <1>7 DEF Step

\* And a calm step keeps CallsLive.
LEMMA CalmKeeps ==
  ASSUME MuxInv, MuxInv', CallsLive, NEW c \in Coroutines, NEW s \in Conns, Calm(c, s)
  PROVE  CallsLive'
<1>1. /\ TypeOK /\ OnOwn /\ WriteTurnExclusive /\ FrameOfTarget /\ AnswersFollow
      /\ TypeOK' /\ FrameOfTarget' /\ AnswersFollow'
  BY DEF MuxInv
<1>2. ReadTurnHeld /\ NoneClosed /\ CallsUnderWay /\ TargetHere
  BY DEF CallsLive
<1>3. ReadersApart
  BY <1>1, ReadersAreApart
<1>4. ReadersApart' /\ ReadTurnHeld'
  BY <1>2, <1>3, ReadTurnKept
<1>5. NoneClosed'
  BY <1>1, <1>2, <1>3, NoneClosedKept
<1>6. CallsUnderWay'
  BY <1>1, <1>2, CallsUnderWayKept
<1>7. TargetHere'
  BY <1>1, <1>2, TargetHereKept
<1>8. ReadTurnExclusive'
  BY <1>4 DEF ReadersApart, ReadTurnExclusive, Reading
<1>9. CallsWaitedFor'
  BY <1>6 DEF CallsUnderWay, CallsWaitedFor, Dangling
<1> QED
  BY <1>4, <1>5, <1>6, <1>7, <1>8, <1>9 DEF CallsLive

\* Nothing is open, nobody has called.
LEMMA LiveStarts ==
  ASSUME Init
  PROVE  CallsLive
<1>1. \A s \in Conns : ~conn[s].reading /\ conn[s].calls = <<>>
  BY DEF Init, NewConn
<1>2. \A s \in Conns : DOMAIN conn[s].calls = {} /\ Members(conn[s].calls) = {}
  BY <1>1 DEF Members
<1>3. \A c \in Coroutines : co[c].pc = "idle" /\ co[c].live = FALSE
  BY DEF Init, NewCo
<1>4. ReadTurnExclusive /\ ReadTurnHeld
  BY <1>1, <1>3 DEF ReadTurnExclusive, ReadTurnHeld
<1>5. CallsWaitedFor /\ CallsUnderWay
  BY <1>2, <1>3 DEF CallsWaitedFor, Dangling, CallsUnderWay, UnderWay, Unsent
<1>6. NoneClosed /\ TargetHere
  BY <1>1, <1>3 DEF NoneClosed, TargetHere
<1> QED
  BY <1>4, <1>5, <1>6 DEF CallsLive

\* A connection that was failed stays so in the history.
LEMMA BrokenStays ==
  ASSUME broken, [Next]_vars
  PROVE  broken'
<1>1. ASSUME NEW c \in Coroutines, Step(c) \/ \E p \in Peers : Send(c, p)
      PROVE  broken'
  BY <1>1 DEF Step, Send, GetWait, GetTurn, GetConnect, TurnAgain, TurnTaken, TurnClosed, Connected,
              ConnectFails, Sent, SendFails, Park, Unpark, ReadTurn, ReadExpires, ReadHeader,
              ReadHeaderFails, ReaderFails, WaitFails, ReadBody, ReadBodyFails, WaitEnd
<1> QED
  BY <1>1 DEF Next, vars

\* LiveUntilBroken is inductive beside MuxInv.
LEMMA LiveStep ==
  ASSUME MuxInv, LiveUntilBroken, [Next]_vars
  PROVE  LiveUntilBroken'
<1>0. MuxInv'
  BY MuxStep
<1> SUFFICES ASSUME ~broken' PROVE CallsLive'
  BY DEF LiveUntilBroken
<1>1. CallsLive
  BY BrokenStays DEF LiveUntilBroken
<1>2. CASE Next
  <2>1. PICK c \in Coroutines : Step(c) \/ \E p \in Peers : Send(c, p)
    BY <1>2 DEF Next
  <2>2. PICK s \in Conns : Calm(c, s)
    BY <1>1, <2>1, StepsCalm
  <2> QED
    BY <1>0, <1>1, <2>2, CalmKeeps
<1>3. CASE UNCHANGED vars
  BY <1>1, <1>3 DEF vars, CallsLive, ReadTurnExclusive, CallsWaitedFor, Dangling, ReadTurnHeld, NoneClosed,
              CallsUnderWay, TargetHere, SameConn, Live, Call
<1> QED
  BY <1>2, <1>3

\* Under every fault, until the first connection of the loop is failed: one coroutine
\* reads a connection at a time, from one that is open; the read turn is never left
\* behind; and the list of a connection holds exactly the calls that are waited for on
\* it.  Nothing is said of what follows the first failure: ReadTurnExclusive and
\* CallsWaitedFor are refuted there.
THEOREM ReadTurnSound == Spec => []LiveUntilBroken
<1>1. Init => MuxInv /\ LiveUntilBroken
  BY MuxStarts, LiveStarts DEF LiveUntilBroken
<1>2. MuxInv /\ LiveUntilBroken /\ [Next]_vars => (MuxInv /\ LiveUntilBroken)'
  BY MuxStep, LiveStep
<1> QED
  BY <1>1, <1>2, PTL DEF Spec
=============================================================================
