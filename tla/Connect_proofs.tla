--------------------------- MODULE Connect_proofs ---------------------------
(***************************************************************************)
(* What is proved of Connect and of the Resolve it extends, for any number *)
(* of callers, Lookups, sockets, contexts and addresses: ConnectInv, which *)
(* is inductive.  A step of Resolve and a step of connCreate are looked at *)
(* one by one.                                                             *)
(***************************************************************************)
EXTENDS Connect, FiniteSetTheorems, SequenceTheorems, TLAPS

-----------------------------------------------------------------------------
(* The references of a Lookup, counted without cardinalities               *)

Used(l) == \E c \in Callers : lP[c] = l

Creating(l) == \E c \in Callers : lP[c] = l /\ pc[c] = "create"

Bit(b) == IF b THEN 1 ELSE 0

\* One reference is the caller's, one the thread's from before it is created
RefsExact ==
  \A l \in Lookups :
    /\ Used(l) \/ thread[l] # "none" => l \in alive
    /\ l \in alive => refs[l] = Bit(Used(l)) + Bit(thread[l] # "none" \/ Creating(l))
    /\ l \in alive <=> refs[l] > 0

\* A Lookup has one caller at most, so those who hold it are two at most.
LEMMA HoldersCount ==
  ASSUME LookupsInOrder, NEW l \in Lookups
  PROVE  Cardinality(Holders(l)) = Bit(Used(l)) + Bit(thread[l] # "none")
<1> DEFINE T == IF thread[l] = "none" THEN {} ELSE {l}
<1>1. Cardinality(T) = Bit(thread[l] # "none") /\ IsFiniteSet(T)
  BY FS_EmptySet, FS_Singleton DEF Bit
<1>2. CASE ~Used(l)
  <2>1. Holders(l) = T
    BY <1>2 DEF Holders, Used
  <2> QED
    BY <1>1, <1>2, <2>1 DEF Bit
<1>3. CASE Used(l)
  <2>1. PICK c \in Callers : lP[c] = l
    BY <1>3 DEF Used
  <2>2. {b \in Callers : lP[b] = l} = {c}
    BY <2>1, ResolveAssumption DEF LookupsInOrder
  <2>3. Holders(l) = T \cup {c}
    BY <2>2 DEF Holders
  <2>4. c \notin T
    BY <2>1, ResolveAssumption
  <2>5. Cardinality(T \cup {c}) = Cardinality(T) + 1
    BY <1>1, <2>4, FS_AddElement
  <2> HIDE DEF T
  <2> QED
    BY <1>1, <1>3, <2>3, <2>5 DEF Bit
<1> QED
  BY <1>2, <1>3

\* The two ways to say what is counted agree.
LEMMA SameCount ==
  ASSUME LookupsInOrder
  PROVE  HeldWhileUsed <=> RefsExact
<1> SUFFICES ASSUME NEW l \in Lookups
             PROVE  /\ Holders(l) # {} <=> Used(l) \/ thread[l] # "none"
                    /\ Cardinality(Holders(l)) + (IF \E c \in Callers : lP[c] = l /\ pc[c] = "create" THEN 1 ELSE 0)
                         = Bit(Used(l)) + Bit(thread[l] # "none" \/ Creating(l))
  BY DEF HeldWhileUsed, RefsExact
<1>1. Holders(l) # {} <=> Used(l) \/ thread[l] # "none"
  BY DEF Holders, Used
<1>2. Creating(l) => thread[l] = "none"
  BY DEF LookupsInOrder, Creating
<1>3. Cardinality(Holders(l)) = Bit(Used(l)) + Bit(thread[l] # "none")
  BY HoldersCount
<1> QED
  BY <1>1, <1>2, <1>3 DEF Bit, Creating

-----------------------------------------------------------------------------
(* The steps of Resolve                                                    *)

LookupInv == TypeOK /\ RefsExact /\ AddressesOwned /\ AnswerIsWhole /\ LookupsInOrder

\* What a caller finds itself is its own.
LEMMA FoundHere ==
  ASSUME TypeOK, AddressesOwned, LookupsInOrder, NEW c \in Callers, NEW l \in Lookups \ known, AskHere(c, l),
         addrs[c] = None, resP' = resP, resP \subseteq alive'
  PROVE  AddressesOwned'
<1>1. CASE known' = known /\ addrs' = addrs
  BY <1>1 DEF AddressesOwned
<1>2. CASE known' = known \cup {l} /\ addrs' = [addrs EXCEPT ![c] = l]
  <2>1. l \notin resP /\ \A b \in Callers : addrs[b] # l
    BY ResolveAssumption DEF LookupsInOrder
  <2>2. addrs'[c] = l /\ \A b \in Callers \ {c} : addrs'[b] = addrs[b]
    BY <1>2 DEF TypeOK
  <2>3. ASSUME NEW m \in known
        PROVE  /\ (m \in resP <=> \A b \in Callers : addrs'[b] # m)
               /\ \A a, b \in Callers : addrs'[a] = m /\ addrs'[b] = m => a = b
    <3>1. m # l /\ m # None
      BY ResolveAssumption DEF TypeOK
    <3>2. \A b \in Callers : addrs'[b] = m <=> addrs[b] = m
      BY <2>2, <3>1
    <3> QED
      BY <3>2 DEF AddressesOwned
  <2> QED
    BY <1>2, <2>1, <2>2, <2>3 DEF AddressesOwned
<1> QED
  BY <1>1, <1>2 DEF AskHere

\* An address, or a caller that is no coroutine: no Lookup is made.
LEMMA DirectKeeps ==
  ASSUME LookupInv, NEW c \in Callers, Direct(c)
  PROVE  LookupInv'
<1>1. PICK l \in Lookups \ (alive \cup known) : AskHere(c, l)
  BY DEF Direct
<1>2. /\ pc[c] = "idle" /\ calls[c] < MaxCalls /\ addrs[c] = None /\ calls' = [calls EXCEPT ![c] = @ + 1]
      /\ UNCHANGED <<pc, lP, thread, refs, alive, resP, lrc, signalled>>
  BY DEF Direct
<1>3. TypeOK /\ RefsExact /\ AddressesOwned /\ AnswerIsWhole /\ LookupsInOrder
  BY DEF LookupInv
<1>4. /\ rc' \in [Callers -> {"none", "ok", "fail", "again"}] /\ \A b \in Callers \ {c} : rc'[b] = rc[b]
      /\ \/ known' = known /\ addrs' = addrs
         \/ known' = known \cup {l} /\ addrs' = [addrs EXCEPT ![c] = l]
  BY <1>1, <1>3 DEF AskHere, TypeOK
<1>5. TypeOK'
  <2>1. calls' \in [Callers -> 0 .. MaxCalls]
    BY <1>2, <1>3, ResolveAssumption DEF TypeOK
  <2> QED
    BY <1>2, <1>3, <1>4, <2>1 DEF TypeOK
<1>6. RefsExact'
  BY <1>2, <1>3 DEF RefsExact, Used, Creating, Bit
<1>7. AddressesOwned'
  BY <1>1, <1>2, <1>3, FoundHere DEF LookupsInOrder
<1>8. AnswerIsWhole'
  BY <1>2, <1>3, <1>4 DEF AnswerIsWhole, TypeOK
<1>9. LookupsInOrder'
  <2>1. thread[l] = "none" /\ \A b \in Callers : lP[b] # l
    BY <1>3 DEF RefsExact, Used
  <2> QED
    BY <1>2, <1>3, <1>4, <2>1, ResolveAssumption DEF LookupsInOrder, TypeOK
<1> QED
  BY <1>5, <1>6, <1>7, <1>8, <1>9 DEF LookupInv

\* A Lookup is made that nobody has, with a reference for the thread to come.
LEMMA BeginKeeps ==
  ASSUME LookupInv, NEW c \in Callers, Begin(c)
  PROVE  LookupInv'
<1>1. PICK l \in Lookups \ (alive \cup known) :
        /\ lP' = [lP EXCEPT ![c] = l] /\ alive' = alive \cup {l}
        /\ refs' = [refs EXCEPT ![l] = 2] /\ lrc' = [lrc EXCEPT ![l] = "none"]
  BY DEF Begin
<1>2. thread[l] = "none" /\ ~Used(l) /\ l \notin signalled /\ l \notin resP
  BY <1>1 DEF LookupInv, RefsExact, LookupsInOrder
<1>3. TypeOK'
  <2>1. calls' \in [Callers -> 0 .. MaxCalls]
    BY ResolveAssumption DEF LookupInv, TypeOK, Begin
  <2> QED
    BY <1>1, <2>1 DEF LookupInv, TypeOK, Begin
<1>4. RefsExact'
  <2>1. /\ pc' = [pc EXCEPT ![c] = "create"] /\ UNCHANGED thread /\ pc[c] = "idle" /\ lP[c] = None
        /\ TypeOK /\ RefsExact
    BY DEF LookupInv, Begin, LookupsInOrder
  <2>2. /\ lP'[c] = l /\ pc'[c] = "create" /\ \A b \in Callers \ {c} : lP'[b] = lP[b] /\ pc'[b] = pc[b]
        /\ refs'[l] = 2 /\ \A k \in Lookups \ {l} : refs'[k] = refs[k]
    BY <1>1, <2>1 DEF TypeOK
  <2>3. Used(l)' /\ Creating(l)'
    BY <2>2 DEF Used, Creating
  <2>4. \A k \in Lookups \ {l} : (Used(k)' <=> Used(k)) /\ (Creating(k)' <=> Creating(k))
    BY <2>1, <2>2, ResolveAssumption DEF Used, Creating
  <2>5. \A k \in Lookups \ {l} : k \in alive' <=> k \in alive
    BY <1>1
  <2> QED
    BY <1>1, <2>1, <2>2, <2>3, <2>4, <2>5 DEF RefsExact, Bit
<1>5. AddressesOwned'
  BY <1>1 DEF LookupInv, TypeOK, Begin, AddressesOwned
<1>6. AnswerIsWhole'
  BY <1>1, <1>2 DEF LookupInv, TypeOK, Begin, AnswerIsWhole, Used
<1>7. LookupsInOrder'
  BY <1>1, <1>2, ResolveAssumption DEF LookupInv, TypeOK, Begin, LookupsInOrder, Used
<1> QED
  BY <1>3, <1>4, <1>5, <1>6, <1>7 DEF LookupInv

\* The Lookup of a caller that is in corRestResolve is allocated.
LEMMA OfCaller ==
  ASSUME LookupInv, NEW c \in Callers, pc[c] # "idle"
  PROVE  /\ lP[c] \in Lookups /\ lP[c] \in alive /\ Used(lP[c])
         /\ \A b \in Callers : lP[b] = lP[c] => b = c
<1>1. lP[c] \in Lookups
  BY DEF LookupInv, LookupsInOrder, TypeOK
<1>2. Used(lP[c])
  BY DEF Used
<1>3. lP[c] \in alive
  BY <1>1, <1>2 DEF LookupInv, RefsExact
<1>4. \A b \in Callers : lP[b] = lP[c] => b = c
  BY <1>1, ResolveAssumption DEF LookupInv, LookupsInOrder
<1> QED
  BY <1>1, <1>2, <1>3, <1>4

\* The thread that was counted is created.
LEMMA CreateThreadKeeps ==
  ASSUME LookupInv, NEW c \in Callers, CreateThread(c)
  PROVE  LookupInv'
<1> DEFINE l == lP[c]
<1>1. /\ l \in Lookups /\ l \in alive /\ Used(l) /\ Creating(l)
      /\ \A b \in Callers : lP[b] = l <=> b = c
      /\ thread[l] = "none" /\ l \notin known \cup signalled /\ l \notin resP
  BY OfCaller DEF CreateThread, Creating, LookupInv, LookupsInOrder
<1>2. /\ pc[c] = "create" /\ thread' = [thread EXCEPT ![l] = "resolve"] /\ pc' = [pc EXCEPT ![c] = "wait"]
      /\ UNCHANGED <<calls, lP, rc, addrs, refs, alive, resP, lrc, signalled, known>>
  BY DEF CreateThread
<1> HIDE DEF l
<1>3. TypeOK'
  BY <1>1, <1>2 DEF LookupInv, TypeOK
<1>4. RefsExact'
  BY <1>1, <1>2 DEF LookupInv, TypeOK, RefsExact, Used, Creating, Bit
<1>5. AddressesOwned'
  BY <1>2 DEF LookupInv, AddressesOwned
<1>6. AnswerIsWhole'
  BY <1>2 DEF LookupInv, TypeOK, AnswerIsWhole
<1>7. LookupsInOrder'
  BY <1>1, <1>2 DEF LookupInv, TypeOK, LookupsInOrder
<1> QED
  BY <1>3, <1>4, <1>5, <1>6, <1>7 DEF LookupInv

\* No thread: the Lookup goes, and the caller asks itself.
LEMMA NoThreadKeeps ==
  ASSUME LookupInv, NEW c \in Callers, NoThread(c)
  PROVE  LookupInv'
<1> DEFINE l == lP[c]
<1>1. /\ l \in Lookups /\ l \in alive
      /\ \A b \in Callers : lP[b] = l <=> b = c
      /\ thread[l] = "none" /\ l \notin known \cup signalled /\ l \notin resP /\ addrs[c] = None
  BY OfCaller DEF NoThread, LookupInv, LookupsInOrder
<1>2. /\ pc[c] = "create" /\ refs' = [refs EXCEPT ![l] = 0] /\ alive' = alive \ {l}
      /\ lP' = [lP EXCEPT ![c] = None] /\ AskHere(c, l) /\ pc' = [pc EXCEPT ![c] = "idle"]
      /\ UNCHANGED <<calls, thread, resP, lrc, signalled>>
  BY DEF NoThread
<1> HIDE DEF l
<1>3. TypeOK'
  BY <1>1, <1>2 DEF LookupInv, TypeOK, AskHere
<1>4. RefsExact'
  BY <1>1, <1>2, ResolveAssumption DEF LookupInv, TypeOK, RefsExact, Used, Creating, Bit
<1>5. AddressesOwned'
  BY <1>1, <1>2, FoundHere DEF LookupInv, LookupsInOrder
<1>6. AnswerIsWhole'
  BY <1>1, <1>2 DEF LookupInv, TypeOK, AnswerIsWhole, AskHere
<1>7. LookupsInOrder'
  BY <1>1, <1>2, ResolveAssumption DEF LookupInv, TypeOK, LookupsInOrder, AskHere, RefsExact
<1> QED
  BY <1>3, <1>4, <1>5, <1>6, <1>7 DEF LookupInv

\* The caller sees the eventfd and takes what there is.
LEMMA ResolvedKeeps ==
  ASSUME LookupInv, NEW c \in Callers, Resolved(c)
  PROVE  LookupInv'
<1> DEFINE l == lP[c]
<1>1. /\ l \in Lookups /\ l \in alive
      /\ \A b \in Callers : lP[b] = l <=> b = c
      /\ thread[l] # "resolve" /\ lrc[l] # "none" /\ (lrc[l] = "ok" <=> l \in resP) /\ addrs[c] = None
  BY OfCaller DEF Resolved, LookupInv, LookupsInOrder
<1>2. /\ pc[c] = "wait" /\ l \in signalled /\ rc' = [rc EXCEPT ![c] = lrc[l]]
      /\ addrs' = [addrs EXCEPT ![c] = IF l \in resP THEN l ELSE None] /\ resP' = resP \ {l}
      /\ pc' = [pc EXCEPT ![c] = "release"]
      /\ UNCHANGED <<calls, lP, thread, refs, alive, lrc, signalled, known>>
  BY DEF Resolved
<1>3. TypeOK /\ RefsExact /\ AddressesOwned /\ AnswerIsWhole /\ LookupsInOrder
  BY DEF LookupInv
<1> HIDE DEF l
<1>4. /\ addrs'[c] = (IF l \in resP THEN l ELSE None) /\ \A b \in Callers \ {c} : addrs'[b] = addrs[b]
      /\ rc'[c] = lrc[l] /\ \A b \in Callers \ {c} : rc'[b] = rc[b]
      /\ pc'[c] = "release" /\ \A b \in Callers \ {c} : pc'[b] = pc[b]
  BY <1>2, <1>3 DEF TypeOK
<1>5. TypeOK'
  BY <1>1, <1>2, <1>3 DEF TypeOK
<1>6. RefsExact'
  BY <1>2, <1>3, <1>4 DEF RefsExact, Used, Creating, Bit
<1>7. AddressesOwned'
  <2>1. ASSUME NEW m \in known
        PROVE  /\ (m \in resP' <=> \A b \in Callers : addrs'[b] # m)
               /\ m \in resP' => m \in alive
               /\ \A a, b \in Callers : addrs'[a] = m /\ addrs'[b] = m => a = b
    <3>1. m \in Lookups /\ m # None
      BY <1>3, ResolveAssumption DEF TypeOK
    <3>2. CASE m # l
      <4>1. /\ \A b \in Callers : addrs'[b] = m <=> addrs[b] = m
            /\ m \in resP' <=> m \in resP
        BY <1>1, <1>2, <1>4, <3>1, <3>2
      <4> QED
        BY <1>3, <4>1 DEF AddressesOwned
    <3>3. CASE m = l /\ l \in resP
      <4>1. \A b \in Callers : addrs[b] # l
        BY <1>3, <3>3 DEF AddressesOwned
      <4>2. \A b \in Callers : addrs'[b] = l <=> b = c
        BY <1>4, <3>3, <4>1
      <4> QED
        BY <1>2, <3>3, <4>2
    <3>4. CASE m = l /\ l \notin resP
      <4>1. \A b \in Callers : addrs'[b] = addrs[b]
        BY <1>1, <1>4, <3>4
      <4> QED
        BY <1>2, <1>3, <3>4, <4>1 DEF AddressesOwned
    <3> QED
      BY <3>2, <3>3, <3>4
  <2> QED
    BY <1>2, <2>1 DEF AddressesOwned
<1>8. AnswerIsWhole'
  BY <1>1, <1>2, <1>3, <1>4, ResolveAssumption DEF AnswerIsWhole, TypeOK
<1>9. LookupsInOrder'
  BY <1>1, <1>2, <1>3, <1>4, ResolveAssumption DEF LookupsInOrder
<1> QED
  BY <1>5, <1>6, <1>7, <1>8, <1>9 DEF LookupInv

\* Ten seconds are over.
LEMMA TimedOutKeeps ==
  ASSUME LookupInv, NEW c \in Callers, TimedOut(c)
  PROVE  LookupInv'
<1>1. /\ pc[c] = "wait" /\ rc' = [rc EXCEPT ![c] = "again"] /\ pc' = [pc EXCEPT ![c] = "release"]
      /\ UNCHANGED <<calls, lP, addrs, thread, refs, alive, resP, lrc, signalled, known>>
  BY DEF TimedOut
<1>2. TypeOK /\ RefsExact /\ AddressesOwned /\ AnswerIsWhole /\ LookupsInOrder
  BY DEF LookupInv
<1>3. TypeOK'
  BY <1>1, <1>2 DEF TypeOK
<1>4. RefsExact'
  BY <1>1, <1>2 DEF TypeOK, RefsExact, Used, Creating, Bit
<1>5. AddressesOwned'
  BY <1>1, <1>2 DEF AddressesOwned
<1>6. AnswerIsWhole'
  BY <1>1, <1>2 DEF AnswerIsWhole, TypeOK
<1>7. LookupsInOrder'
  BY <1>1, <1>2 DEF LookupsInOrder, TypeOK
<1> QED
  BY <1>3, <1>4, <1>5, <1>6, <1>7 DEF LookupInv

\* Whoever lets go of a Lookup that another still holds takes nothing away.
LEMMA ReleaseCounts ==
  ASSUME LookupInv, NEW l \in Lookups, l \in alive, Release(l), ~Creating(l)
  PROVE  /\ refs[l] = Bit(Used(l)) + Bit(thread[l] # "none")
         /\ refs[l] = 1 => /\ refs'[l] = 0 /\ alive' = alive \ {l} /\ resP' = resP \ {l}
                           /\ signalled' = signalled \ {l}
                           /\ known' = IF l \in resP THEN known \ {l} ELSE known
         /\ refs[l] # 1 => /\ refs'[l] = 1 /\ UNCHANGED <<alive, known, resP, signalled>>
         /\ refs' \in [Lookups -> 0 .. 2] /\ \A k \in Lookups \ {l} : refs'[k] = refs[k]
<1>1. refs[l] = Bit(Used(l)) + Bit(thread[l] # "none") /\ refs[l] \in {1, 2}
  BY DEF LookupInv, RefsExact, Bit
<1>2. refs' = [refs EXCEPT ![l] = refs[l] - 1] /\ refs \in [Lookups -> 0 .. 2]
  BY DEF Release, LookupInv, TypeOK
<1>3. refs[l] - 1 \in 0 .. 2
  BY <1>1
<1>4. refs'[l] = refs[l] - 1 /\ refs' \in [Lookups -> 0 .. 2] /\ \A k \in Lookups \ {l} : refs'[k] = refs[k]
  BY <1>2, <1>3
<1> QED
  BY <1>1, <1>4 DEF Release

\* What stays known when a Lookup is let go is owned as before.
LEMMA ReleaseOwned ==
  ASSUME LookupInv, NEW l \in Lookups, UNCHANGED addrs,
         \/ UNCHANGED <<alive, known, resP>>
         \/ alive' = alive \ {l} /\ resP' = resP \ {l} /\ known' = IF l \in resP THEN known \ {l} ELSE known
  PROVE  /\ AddressesOwned' /\ resP' \subseteq known' /\ resP' \subseteq alive' /\ known' \subseteq known
         /\ \A c \in Callers : addrs[c] \in known' \cup {None}
<1>1. AddressesOwned /\ LookupsInOrder /\ TypeOK
  BY DEF LookupInv
<1>2. CASE UNCHANGED <<alive, known, resP>>
  BY <1>1, <1>2 DEF AddressesOwned, LookupsInOrder
<1>3. CASE alive' = alive \ {l} /\ resP' = resP \ {l} /\ known' = IF l \in resP THEN known \ {l} ELSE known
  <2>1. /\ resP \subseteq known /\ resP \subseteq alive /\ known' \subseteq known
        /\ \A m \in known : m \notin known' => m = l /\ l \in resP
        /\ \A m \in known' : m \in resP' <=> m \in resP
    BY <1>1, <1>3 DEF LookupsInOrder
  <2>2. resP' \subseteq known' /\ resP' \subseteq alive'
    BY <1>3, <2>1
  <2>3. \A c \in Callers : addrs[c] \in known' \cup {None}
    <3> SUFFICES ASSUME NEW c \in Callers, addrs[c] \in known \ known'
                 PROVE  FALSE
      BY <1>1 DEF LookupsInOrder
    <3>1. addrs[c] = l /\ l \in resP /\ l \in known
      BY <2>1
    <3> QED
      BY <1>1, <3>1 DEF AddressesOwned
  <2>4. AddressesOwned'
    BY <1>1, <2>1, <2>2 DEF AddressesOwned
  <2> QED
    BY <2>1, <2>2, <2>3, <2>4
<1> QED
  BY <1>2, <1>3

\* The caller lets go: what the thread still needs stays.
LEMMA LetGoKeeps ==
  ASSUME LookupInv, NEW c \in Callers, LetGo(c)
  PROVE  LookupInv'
<1>0. PICK l \in Lookups : l = lP[c]
  BY OfCaller DEF LetGo
<1>1. /\ l \in Lookups /\ l \in alive /\ Used(l)
      /\ \A b \in Callers : lP[b] = l <=> b = c
      /\ ~Creating(l)
  BY <1>0, OfCaller DEF LetGo, Creating
<1>2. /\ pc[c] = "release" /\ Release(l) /\ lP' = [lP EXCEPT ![c] = None] /\ pc' = [pc EXCEPT ![c] = "idle"]
      /\ UNCHANGED <<calls, rc, addrs, thread, lrc>>
  BY <1>0 DEF LetGo
<1>3. TypeOK /\ RefsExact /\ AddressesOwned /\ AnswerIsWhole /\ LookupsInOrder
  BY DEF LookupInv
<1>4. /\ refs[l] = 1 => /\ refs'[l] = 0 /\ alive' = alive \ {l} /\ resP' = resP \ {l} /\ thread[l] = "none"
                        /\ signalled' = signalled \ {l}
                        /\ known' = IF l \in resP THEN known \ {l} ELSE known
      /\ refs[l] # 1 => refs'[l] = 1 /\ thread[l] # "none" /\ UNCHANGED <<alive, known, resP, signalled>>
      /\ refs' \in [Lookups -> 0 .. 2] /\ \A k \in Lookups \ {l} : refs'[k] = refs[k]
  BY <1>1, <1>2, ReleaseCounts DEF Bit
<1>5. /\ lP'[c] = None /\ \A b \in Callers \ {c} : lP'[b] = lP[b]
      /\ pc'[c] = "idle" /\ \A b \in Callers \ {c} : pc'[b] = pc[b]
  BY <1>2, <1>3 DEF TypeOK
<1>6. TypeOK'
  BY <1>2, <1>3, <1>4 DEF TypeOK
<1>7. RefsExact'
  <2>1. ~Used(l)' /\ ~Creating(l)'
    BY <1>1, <1>5, ResolveAssumption DEF Used, Creating
  <2>2. ASSUME NEW k \in Lookups \ {l}
        PROVE  /\ (Used(k) \/ thread[k] # "none" => k \in alive)'
               /\ (k \in alive => refs[k] = Bit(Used(k)) + Bit(thread[k] # "none" \/ Creating(k)))'
               /\ (k \in alive <=> refs[k] > 0)'
    <3>1. /\ \A b \in Callers : lP'[b] = k <=> lP[b] = k
          /\ \A b \in Callers : lP[b] = k => pc'[b] = pc[b]
      BY <1>1, <1>5, <2>2, ResolveAssumption
    <3>2. (k \in alive' <=> k \in alive) /\ refs'[k] = refs[k] /\ thread'[k] = thread[k]
      BY <1>2, <1>4
    <3> QED
      BY <1>3, <3>1, <3>2 DEF RefsExact, Used, Creating, Bit
  <2>4. /\ (Used(l) \/ thread[l] # "none" => l \in alive)'
        /\ (l \in alive => refs[l] = Bit(Used(l)) + Bit(thread[l] # "none" \/ Creating(l)))'
        /\ (l \in alive <=> refs[l] > 0)'
    BY <1>1, <1>2, <1>4, <2>1 DEF Bit
  <2> QED
    BY <2>2, <2>4 DEF RefsExact
<1>8. /\ AddressesOwned' /\ resP' \subseteq known' /\ resP' \subseteq alive' /\ known' \subseteq known
      /\ \A b \in Callers : addrs[b] \in known' \cup {None}
  BY <1>1, <1>2, <1>4, ReleaseOwned
<1>9. AnswerIsWhole'
  BY <1>2, <1>3, <1>5 DEF AnswerIsWhole
<1>10. LookupsInOrder'
  <2>1. \A k \in Lookups \ {l} : (k \in resP' <=> k \in resP) /\ (k \in signalled' <=> k \in signalled)
    BY <1>4
  <2>2. signalled' \subseteq signalled /\ signalled' \subseteq alive'
    BY <1>3, <1>4 DEF LookupsInOrder
  <2>3. \A b \in Callers : pc'[b] # "idle" => b # c /\ lP'[b] = lP[b] /\ lP[b] # l /\ lP[b] \in Lookups
    BY <1>1, <1>3, <1>5 DEF LookupsInOrder, TypeOK
  <2>4. \A a, b \in Callers : lP'[a] = lP'[b] /\ lP'[a] # None => a = b
    BY <1>3, <1>5 DEF LookupsInOrder
  <2> QED
    BY <1>2, <1>3, <1>5, <1>8, <2>1, <2>2, <2>3, <2>4 DEF LookupsInOrder
<1> QED
  BY <1>6, <1>7, <1>8, <1>9, <1>10 DEF LookupInv

\* The thread has looked the name up: what it found is the Lookup's.
LEMMA GetAddrInfoKeeps ==
  ASSUME LookupInv, NEW l \in Lookups, GetAddrInfo(l)
  PROVE  LookupInv'
<1>1. /\ thread[l] = "resolve" /\ thread' = [thread EXCEPT ![l] = "signal"]
      /\ \/ lrc' = [lrc EXCEPT ![l] = "ok"] /\ resP' = resP \cup {l} /\ known' = known \cup {l}
         \/ lrc' = [lrc EXCEPT ![l] = "fail"] /\ UNCHANGED <<resP, known>>
      /\ UNCHANGED <<pc, calls, lP, rc, addrs, refs, alive, signalled>>
  BY DEF GetAddrInfo
<1>2. TypeOK /\ RefsExact /\ AddressesOwned /\ AnswerIsWhole /\ LookupsInOrder
  BY DEF LookupInv
<1>3. /\ l \in alive /\ l \notin known /\ l \notin resP /\ l \notin signalled
      /\ \A c \in Callers : addrs[c] # l
  BY <1>1, <1>2, ResolveAssumption DEF RefsExact, LookupsInOrder
<1>4. /\ thread'[l] = "signal" /\ \A k \in Lookups \ {l} : thread'[k] = thread[k] /\ lrc'[k] = lrc[k]
      /\ lrc'[l] # "none" /\ (lrc'[l] = "ok" <=> l \in resP')
  BY <1>1, <1>2, <1>3 DEF TypeOK
<1>5. TypeOK'
  BY <1>1, <1>2 DEF TypeOK
<1>6. RefsExact'
  BY <1>1, <1>2, <1>4 DEF RefsExact, Used, Creating, Bit
<1>7. AddressesOwned'
  BY <1>1, <1>2, <1>3 DEF AddressesOwned
<1>8. AnswerIsWhole'
  <2>1. \A c \in Callers : pc[c] = "release" /\ rc[c] # "again" => lP[c] \in Lookups \ {l}
    BY <1>2, <1>3, ResolveAssumption DEF LookupsInOrder, TypeOK
  <2> QED
    BY <1>1, <1>2, <1>4, <2>1 DEF AnswerIsWhole
<1>9. LookupsInOrder'
  <2>1. \A c \in Callers : pc[c] # "idle" => lP[c] \in Lookups
    BY <1>2 DEF LookupsInOrder, TypeOK
  <2> QED
    BY <1>1, <1>2, <1>3, <1>4, <2>1 DEF LookupsInOrder
<1> QED
  BY <1>5, <1>6, <1>7, <1>8, <1>9 DEF LookupInv

\* The thread signals.
LEMMA SignalKeeps ==
  ASSUME LookupInv, NEW l \in Lookups, Signal(l)
  PROVE  LookupInv'
<1>1. /\ thread[l] = "signal" /\ thread' = [thread EXCEPT ![l] = "release"] /\ signalled' = signalled \cup {l}
      /\ UNCHANGED <<pc, calls, lP, rc, addrs, refs, alive, resP, lrc, known>>
  BY DEF Signal
<1>2. TypeOK /\ RefsExact /\ AddressesOwned /\ AnswerIsWhole /\ LookupsInOrder
  BY DEF LookupInv
<1>3. l \in alive /\ thread'[l] = "release" /\ \A k \in Lookups \ {l} : thread'[k] = thread[k]
  BY <1>1, <1>2 DEF RefsExact, TypeOK
<1>4. TypeOK'
  BY <1>1, <1>2 DEF TypeOK
<1>5. RefsExact'
  BY <1>1, <1>2, <1>3 DEF RefsExact, Used, Creating, Bit
<1>6. AddressesOwned' /\ AnswerIsWhole'
  BY <1>1, <1>2 DEF AddressesOwned, AnswerIsWhole
<1>7. LookupsInOrder'
  <2>1. \A c \in Callers : pc[c] # "idle" => lP[c] \in Lookups
    BY <1>2 DEF LookupsInOrder, TypeOK
  <2> QED
    BY <1>1, <1>2, <1>3, <2>1 DEF LookupsInOrder
<1> QED
  BY <1>4, <1>5, <1>6, <1>7 DEF LookupInv

\* The thread lets go: what the caller still needs stays.
LEMMA ThreadLetsGoKeeps ==
  ASSUME LookupInv, NEW l \in Lookups, ThreadLetsGo(l)
  PROVE  LookupInv'
<1>1. /\ thread[l] = "release" /\ thread' = [thread EXCEPT ![l] = "none"] /\ Release(l)
      /\ UNCHANGED <<pc, calls, lP, rc, addrs, lrc>>
  BY DEF ThreadLetsGo
<1>2. TypeOK /\ RefsExact /\ AddressesOwned /\ AnswerIsWhole /\ LookupsInOrder
  BY DEF LookupInv
<1>3. l \in alive /\ ~Creating(l)
  BY <1>1, <1>2 DEF RefsExact, LookupsInOrder, Creating
<1>4. /\ refs[l] = 1 => /\ refs'[l] = 0 /\ alive' = alive \ {l} /\ resP' = resP \ {l} /\ ~Used(l)
                        /\ signalled' = signalled \ {l}
                        /\ known' = IF l \in resP THEN known \ {l} ELSE known
      /\ refs[l] # 1 => refs'[l] = 1 /\ Used(l) /\ UNCHANGED <<alive, known, resP, signalled>>
      /\ refs' \in [Lookups -> 0 .. 2] /\ \A k \in Lookups \ {l} : refs'[k] = refs[k]
  BY <1>1, <1>3, ReleaseCounts DEF Bit
<1>5. thread'[l] = "none" /\ \A k \in Lookups \ {l} : thread'[k] = thread[k]
  BY <1>1, <1>2 DEF TypeOK
<1>6. TypeOK'
  BY <1>1, <1>2, <1>4 DEF TypeOK
<1>7. RefsExact'
  <2>1. \A k \in Lookups : (Used(k)' <=> Used(k)) /\ (Creating(k)' <=> Creating(k))
    BY <1>1 DEF Used, Creating
  <2>2. \A k \in Lookups \ {l} : k \in alive' <=> k \in alive
    BY <1>4
  <2> QED
    BY <1>2, <1>3, <1>4, <1>5, <2>1, <2>2 DEF RefsExact, Bit
<1>8. /\ AddressesOwned' /\ resP' \subseteq known' /\ resP' \subseteq alive' /\ known' \subseteq known
      /\ \A b \in Callers : addrs[b] \in known' \cup {None}
  BY <1>1, <1>4, ReleaseOwned
<1>9. AnswerIsWhole'
  BY <1>1, <1>2 DEF AnswerIsWhole
<1>10. LookupsInOrder'
  <2>1. \A k \in Lookups \ {l} : (k \in resP' <=> k \in resP) /\ (k \in signalled' <=> k \in signalled)
    BY <1>4
  <2>2. signalled' \subseteq signalled /\ signalled' \subseteq alive'
    BY <1>2, <1>4 DEF LookupsInOrder
  <2>3. \A c \in Callers : pc[c] # "idle" => lP[c] \in Lookups /\ Used(lP[c])
    BY <1>2 DEF LookupsInOrder, TypeOK, Used
  <2>4. Used(l) => (l \in resP' <=> l \in resP) /\ (l \in signalled' <=> l \in signalled)
    BY <1>4
  <2> QED
    BY <1>1, <1>2, <1>5, <1>8, <2>1, <2>2, <2>3, <2>4 DEF LookupsInOrder
<1> QED
  BY <1>6, <1>7, <1>8, <1>9, <1>10 DEF LookupInv

\* The caller frees what it has.
LEMMA FreeAddrsKeeps ==
  ASSUME LookupInv, NEW c \in Callers, FreeAddrs(c)
  PROVE  LookupInv'
<1> DEFINE l == addrs[c]
<1>1. /\ pc[c] = "idle" /\ l # None /\ known' = known \ {l} /\ addrs' = [addrs EXCEPT ![c] = None]
      /\ UNCHANGED <<pc, calls, lP, rc, thread, refs, alive, resP, lrc, signalled>>
  BY DEF FreeAddrs
<1>2. TypeOK /\ RefsExact /\ AddressesOwned /\ AnswerIsWhole /\ LookupsInOrder
  BY DEF LookupInv
<1>3. l \in known /\ l \notin resP /\ \A b \in Callers : addrs[b] = l <=> b = c
  BY <1>1, <1>2 DEF LookupsInOrder, AddressesOwned
<1> HIDE DEF l
<1>4. addrs'[c] = None /\ \A b \in Callers \ {c} : addrs'[b] = addrs[b]
  BY <1>1, <1>2 DEF TypeOK
<1>5. TypeOK'
  BY <1>1, <1>2 DEF TypeOK
<1>6. RefsExact'
  BY <1>1, <1>2 DEF RefsExact, Used, Creating, Bit
<1>7. AddressesOwned'
  <2> SUFFICES ASSUME NEW m \in known'
               PROVE  /\ (m \in resP <=> \A b \in Callers : addrs'[b] # m)
                      /\ m \in resP => m \in alive
                      /\ \A a, b \in Callers : addrs'[a] = m /\ addrs'[b] = m => a = b
    BY <1>1 DEF AddressesOwned
  <2>1. m \in known /\ m # l /\ m # None
    BY <1>1, <1>2, ResolveAssumption DEF TypeOK
  <2>2. \A b \in Callers : addrs'[b] = m <=> addrs[b] = m
    BY <1>3, <1>4, <2>1
  <2> QED
    BY <1>2, <2>1, <2>2 DEF AddressesOwned
<1>8. AnswerIsWhole'
  BY <1>1, <1>2, <1>4 DEF AnswerIsWhole
<1>9. LookupsInOrder'
  BY <1>1, <1>2, <1>3, <1>4 DEF LookupsInOrder
<1> QED
  BY <1>5, <1>6, <1>7, <1>8, <1>9 DEF LookupInv

-----------------------------------------------------------------------------
(* The steps of connCreate                                                 *)

\* ConnectTypeOK of the variables that Connect adds
CallerTypes ==
    /\ config \in Nat
    /\ DOMAIN ask = Callers /\ DOMAIN route = Callers
    /\ step \in [Callers -> Steps]
    /\ tried \in [Callers -> 0 .. Addresses]
    /\ fd \in [Callers -> Sockets \cup {None}]
    /\ opened \subseteq Sockets
    /\ tunnel \in [Callers -> BOOLEAN] /\ checked \in [Callers -> BOOLEAN]
    /\ ssl \in [Callers -> Contexts \cup {None}]
    /\ why \in [Callers -> {"none", "resolve", "unreachable", "tunnel", "memory", "context", "handshake"}]
    /\ sslCtx \in Contexts \cup {None}
    /\ configured \subseteq Contexts
    /\ tlsInited \in BOOLEAN /\ raced \in BOOLEAN

\* What the invariants say of one caller, without the others
Placed(c) ==
    /\ fd[c] # None <=> step[c] \notin {"idle", "resolve", "resolving", "walk"}
    /\ step[c] \in {"walk", "connecting"} <=> addrs[c] # None /\ step[c] # "resolving"
    /\ why[c] = "unreachable" => tried[c] = Addresses
    /\ pc[c] # "idle" => step[c] = "resolving"
    /\ step[c] # "idle" => why[c] = "none"
    /\ step[c] \in {"resolve", "resolving", "walk", "connecting", "tunnel"} => ~tunnel[c]
    /\ step[c] = "tunnel" => route[c].set /\ ask[c].tls
    /\ step[c] \in {"create", "tls", "context", "configure", "handshake", "up"} =>
          (tunnel[c] <=> route[c].set /\ ask[c].tls)
    /\ step[c] \in {"tls", "context", "configure", "handshake"} => ask[c].tls
    /\ ssl[c] # None => step[c] \in {"handshake", "up"}
    /\ step[c] = "up" => (ask[c].tls <=> ssl[c] # None)

SocketsApart ==
    /\ opened = {fd[c] : c \in Callers} \ {None}
    /\ \A c, d \in Callers : fd[c] = fd[d] /\ fd[c] # None => c = d

CallerInv == CallerTypes /\ SocketsApart /\ (\A c \in Callers : Placed(c)) /\ TlsInOrder

\* The invariant, taken apart.
LEMMA InvParts == ConnectInv <=> LookupInv /\ CallerInv
<1>1. ConnectTypeOK <=> TypeOK /\ CallerTypes
  BY DEF ConnectTypeOK, CallerTypes
<1>2. SocketsOwned /\ EveryAddressTried /\ CallersInOrder <=> SocketsApart /\ \A c \in Callers : Placed(c)
  BY DEF SocketsOwned, EveryAddressTried, CallersInOrder, SocketsApart, Placed
<1> QED
  BY <1>1, <1>2, SameCount DEF ConnectInv, LookupInv, CallerInv

\* A step of c leaves the other callers where they are
Others(c) ==
    \A b \in Callers \ {c} :
        /\ pc'[b] = pc[b] /\ addrs'[b] = addrs[b]
        /\ step'[b] = step[b] /\ ask'[b] = ask[b] /\ route'[b] = route[b] /\ tried'[b] = tried[b]
        /\ fd'[b] = fd[b] /\ tunnel'[b] = tunnel[b] /\ why'[b] = why[b]
        /\ ssl'[b] = ssl[b] /\ checked'[b] = checked[b]

\* ... opens a socket, closes its own or does neither
SocketMove(c) ==
    \/ fd'[c] = fd[c] /\ opened' = opened
    \/ fd'[c] = None /\ opened' = opened \ {fd[c]}
    \/ fd[c] = None /\ fd'[c] \in Sockets \ opened /\ opened' = opened \cup {fd'[c]}

\* ... and has nothing to do with the initialisation of TLS
TlsAside(c) ==
    /\ UNCHANGED tlsVars /\ UNCHANGED setting
    /\ {step[c], step'[c]} \cap {"context", "configure"} = {}
    /\ step'[c] = "handshake" => step[c] = "handshake"
    /\ ssl'[c] # None => ssl'[c] = ssl[c] /\ checked'[c] = checked[c]

\* The sockets that are open stay those of the callers, one each.
LEMMA SocketsMove ==
    ASSUME CallerTypes, SocketsApart, NEW c \in Callers, Others(c), SocketMove(c)
    PROVE  SocketsApart'
<1>1. \A b \in Callers \ {c} : fd'[b] = fd[b]
  BY DEF Others
<1>2. CASE fd'[c] = fd[c] /\ opened' = opened
  <2>1. \A b \in Callers : fd'[b] = fd[b]
    BY <1>1, <1>2
  <2>2. {fd'[b] : b \in Callers} = {fd[b] : b \in Callers}
    BY <2>1
  <2> QED
    BY <1>2, <2>1, <2>2 DEF SocketsApart
<1>3. CASE fd'[c] = None /\ opened' = opened \ {fd[c]}
  BY <1>1, <1>3 DEF SocketsApart
<1>4. CASE fd[c] = None /\ fd'[c] \in Sockets \ opened /\ opened' = opened \cup {fd'[c]}
  BY <1>1, <1>4, ConnectAssumption DEF SocketsApart
<1> QED
  BY <1>2, <1>3, <1>4 DEF SocketMove

\* Whether to verify is settled at the start.
LEMMA InsecureStays ==
    ASSUME UNCHANGED setting
    PROVE  Insecure' <=> Insecure
BY DEF setting, Insecure

\* Who makes the context stays who makes it.
LEMMA TlsKept ==
    ASSUME CallerTypes, TlsInOrder, NEW c \in Callers, Others(c), TlsAside(c)
    PROVE  TlsInOrder'
<1>1. /\ \A b \in Callers :
           /\ step'[b] \in {"context", "configure"} => step[b] = step'[b]
           /\ step'[b] = "handshake" => step[b] = "handshake"
           /\ ssl'[b] # None => ssl[b] # None /\ (checked[b] <=> checked'[b])
      /\ (Insecure' <=> Insecure) /\ sslCtx' = sslCtx /\ configured' = configured /\ (tlsInited' <=> tlsInited) /\ (raced' <=> raced)
  BY DEF Others, TlsAside, tlsVars, setting, Insecure
<1>2. \A b \in Callers : step[b] = "configure" => step'[b] = "configure"
  BY DEF Others, TlsAside
<1> SUFFICES ASSUME ~raced PROVE TlsInOrder'
  BY <1>1 DEF TlsInOrder
<1>3. /\ \A b \in Callers : step[b] \in {"context", "configure"} => ~tlsInited /\ (step[b] = "context" <=> sslCtx = None)
      /\ \A a, b \in Callers : step[a] \in {"context", "configure"} /\ step[b] \in {"context", "configure"} => a = b
      /\ \A b \in Callers : step[b] = "handshake" => tlsInited
      /\ sslCtx \notin configured \cup {None} => \E b \in Callers : step[b] = "configure"
      /\ tlsInited => sslCtx \in configured
      /\ \A b \in Callers : ssl[b] # None => (checked[b] <=> ~Insecure)
  BY DEF TlsInOrder
<1>4. /\ \A b \in Callers : step'[b] \in {"context", "configure"} =>
            ~tlsInited' /\ (step'[b] = "context" <=> sslCtx' = None)
      /\ \A a, b \in Callers : step'[a] \in {"context", "configure"} /\ step'[b] \in {"context", "configure"} => a = b
  BY <1>1, <1>3
<1>5. sslCtx' \notin configured' \cup {None} => \E b \in Callers : step'[b] = "configure"
  BY <1>1, <1>2, <1>3
<1>6. /\ \A b \in Callers : step'[b] = "handshake" => tlsInited'
      /\ tlsInited' => sslCtx' \in configured'
      /\ \A b \in Callers : ssl'[b] # None => (checked'[b] <=> ~Insecure')
  BY <1>1, <1>3
<1> QED
  BY <1>4, <1>5, <1>6 DEF TlsInOrder

\* So such a step keeps the invariant if c itself is where it should be.
LEMMA CallerMoves ==
    ASSUME CallerInv, NEW c \in Callers, Others(c), SocketMove(c), Placed(c)', CallerTypes',
           TlsAside(c) \/ TlsInOrder'
    PROVE  CallerInv'
<1>1. \A b \in Callers \ {c} : Placed(b)'
  BY DEF Others, Placed, CallerInv
<1>2. \A b \in Callers : Placed(b)'
  BY <1>1
<1>3. SocketsApart' /\ TlsInOrder'
  BY SocketsMove, TlsKept DEF CallerInv
<1> QED
  BY <1>2, <1>3 DEF CallerInv

\* A failure closes what is open, and is told.
LEMMA FailMoves ==
    ASSUME CallerTypes, NEW c \in Callers, NEW reason, Fail(c, reason)
    PROVE  /\ step'[c] = "idle" /\ fd'[c] = None /\ why'[c] = reason
           /\ opened' = opened \ {fd[c]}
           /\ \A b \in Callers \ {c} : step'[b] = step[b] /\ fd'[b] = fd[b] /\ why'[b] = why[b]
           /\ step' \in [Callers -> Steps] /\ fd' \in [Callers -> Sockets \cup {None}] /\ opened' \subseteq Sockets
           /\ reason \in {"resolve", "unreachable", "tunnel", "memory", "context", "handshake"} =>
                why' \in [Callers -> {"none", "resolve", "unreachable", "tunnel", "memory", "context", "handshake"}]
BY DEF CallerTypes, Fail, Goto, Steps

\* A caller begins with a route.
LEMMA RouteKeeps ==
    ASSUME LookupInv, CallerInv, NEW c \in Callers, Route(c)
    PROVE  CallerInv'
<1>1. CallerTypes /\ Placed(c)
  BY DEF CallerInv
<1>2. PICK a, p : ask' = [ask EXCEPT ![c] = a] /\ route' = [route EXCEPT ![c] = p]
  BY DEF Route
<1>3. /\ step[c] = "idle" /\ tried' = [tried EXCEPT ![c] = 0] /\ tunnel' = [tunnel EXCEPT ![c] = FALSE]
      /\ why' = [why EXCEPT ![c] = "none"] /\ step' = [step EXCEPT ![c] = "resolve"]
      /\ UNCHANGED <<vars, setting, fd, opened, ssl, checked, tlsVars>>
  BY DEF Route, At, Goto
<1>4. CallerTypes'
  BY <1>1, <1>2, <1>3, ConnectAssumption DEF CallerTypes, Steps, setting, tlsVars
<1>5. Others(c) /\ SocketMove(c) /\ TlsAside(c)
  BY <1>1, <1>2, <1>3 DEF Others, SocketMove, TlsAside, CallerTypes, vars
<1>6. Placed(c)'
  BY <1>1, <1>2, <1>3 DEF Placed, CallerTypes, vars
<1> QED
  BY <1>4, <1>5, <1>6, CallerMoves

\* What a step of Resolve on a caller's side may change of the caller's state.
LEMMA ResolveFrame ==
    ASSUME TypeOK, NEW c \in Callers,
           \/ Begin(c) \/ Direct(c) \/ CreateThread(c) \/ NoThread(c)
           \/ Resolved(c) \/ TimedOut(c) \/ LetGo(c)
    PROVE  \A b \in Callers \ {c} : pc'[b] = pc[b] /\ addrs'[b] = addrs[b]
BY DEF TypeOK, Begin, Direct, AskHere, CreateThread, NoThread, Resolved, TimedOut, LetGo

\* The name is handed to corRestResolve.
LEMMA StartResolveKeeps ==
    ASSUME LookupInv, CallerInv, NEW c \in Callers, StartResolve(c)
    PROVE  LookupInv' /\ CallerInv'
<1>1. CallerTypes /\ Placed(c) /\ TypeOK
  BY DEF CallerInv, LookupInv
<1>2. /\ step[c] = "resolve" /\ step' = [step EXCEPT ![c] = "resolving"] /\ (Begin(c) \/ Direct(c))
      /\ UNCHANGED <<setting, ask, route, tried, fd, opened, tunnel, ssl, checked, why, tlsVars>>
  BY DEF StartResolve, At, Goto
<1>3. LookupInv'
  BY <1>2, BeginKeeps, DirectKeeps
<1>4. CallerTypes'
  BY <1>1, <1>2 DEF CallerTypes, Steps, setting, tlsVars
<1>5. Others(c) /\ SocketMove(c) /\ TlsAside(c)
  BY <1>1, <1>2, ResolveFrame DEF Others, SocketMove, TlsAside, CallerTypes
<1>6. Placed(c)'
  BY <1>1, <1>2 DEF Placed, CallerTypes
<1> QED
  BY <1>3, <1>4, <1>5, <1>6, CallerMoves

\* ... and answers some time.
LEMMA KeepResolvingKeeps ==
    ASSUME LookupInv, CallerInv, NEW c \in Callers, KeepResolving(c)
    PROVE  LookupInv' /\ CallerInv'
<1>1. CallerTypes /\ Placed(c) /\ TypeOK /\ TlsInOrder
  BY DEF CallerInv, LookupInv
<1>2. /\ step[c] = "resolving" /\ (CreateThread(c) \/ NoThread(c) \/ Resolved(c) \/ TimedOut(c) \/ LetGo(c))
      /\ UNCHANGED connVars
  BY DEF KeepResolving, At
<1>3. LookupInv'
  BY <1>2, CreateThreadKeeps, NoThreadKeeps, ResolvedKeeps, TimedOutKeeps, LetGoKeeps
<1>4. CallerTypes' /\ TlsInOrder'
  BY <1>1, <1>2 DEF CallerTypes, TlsInOrder, Insecure, connVars, setting, tlsVars
<1>5. Others(c) /\ SocketMove(c)
  BY <1>1, <1>2, ResolveFrame DEF Others, SocketMove, connVars
<1>6. Placed(c)'
  BY <1>1, <1>2 DEF Placed, connVars
<1> QED
  BY <1>3, <1>4, <1>5, <1>6, CallerMoves

\* A step that leaves Resolve's state alone keeps its invariant.
LEMMA LookupStays == ASSUME LookupInv, UNCHANGED vars PROVE LookupInv'
<1> USE DEF vars
<1>1. TypeOK'
  BY DEF LookupInv, TypeOK
<1>2. RefsExact'
  BY DEF LookupInv, RefsExact, Used, Creating, Bit
<1>3. AddressesOwned' /\ AnswerIsWhole'
  BY DEF LookupInv, AddressesOwned, AnswerIsWhole
<1>4. LookupsInOrder'
  BY DEF LookupInv, LookupsInOrder
<1> QED
  BY <1>1, <1>2, <1>3, <1>4 DEF LookupInv

\* corRestResolve has returned.
LEMMA HaveAddressesKeeps ==
    ASSUME LookupInv, CallerInv, NEW c \in Callers, HaveAddresses(c)
    PROVE  CallerInv'
<1>1. CallerTypes /\ Placed(c)
  BY DEF CallerInv
<1>2. /\ step[c] = "resolving" /\ pc[c] = "idle"
      /\ IF addrs[c] = None THEN Fail(c, "resolve")
         ELSE step' = [step EXCEPT ![c] = "walk"] /\ UNCHANGED <<fd, opened, why>>
      /\ UNCHANGED <<vars, setting, ask, route, tried, tunnel, ssl, checked, tlsVars>>
  BY DEF HaveAddresses, At, Goto
<1>3. CASE addrs[c] = None
  <2>1. /\ step'[c] = "idle" /\ fd'[c] = None /\ why'[c] = "resolve" /\ opened' = opened \ {fd[c]}
        /\ \A b \in Callers \ {c} : step'[b] = step[b] /\ fd'[b] = fd[b] /\ why'[b] = why[b]
        /\ step' \in [Callers -> Steps] /\ fd' \in [Callers -> Sockets \cup {None}] /\ opened' \subseteq Sockets
        /\ why' \in [Callers -> {"none", "resolve", "unreachable", "tunnel", "memory", "context", "handshake"}]
    BY <1>1, <1>2, <1>3, FailMoves
  <2>2. CallerTypes'
    BY <1>1, <1>2, <2>1 DEF CallerTypes, setting, tlsVars
  <2>3. Others(c) /\ SocketMove(c) /\ TlsAside(c)
    BY <1>2, <2>1 DEF Others, SocketMove, TlsAside, vars
  <2>4. Placed(c)'
    BY <1>1, <1>2, <1>3, <2>1 DEF Placed, vars
  <2> QED
    BY <2>2, <2>3, <2>4, CallerMoves
<1>4. CASE addrs[c] # None
  <2>1. CallerTypes'
    BY <1>1, <1>2, <1>4 DEF CallerTypes, Steps, setting, tlsVars
  <2>2. Others(c) /\ SocketMove(c) /\ TlsAside(c)
    BY <1>1, <1>2, <1>4 DEF Others, SocketMove, TlsAside, CallerTypes, vars
  <2>3. Placed(c)'
    BY <1>1, <1>2, <1>4 DEF Placed, CallerTypes, vars
  <2> QED
    BY <2>1, <2>2, <2>3, CallerMoves
<1> QED
  BY <1>3, <1>4

\* The next address is tried.
LEMMA TryAddressKeeps ==
    ASSUME LookupInv, CallerInv, NEW c \in Callers, TryAddress(c)
    PROVE  CallerInv'
<1>1. CallerTypes /\ Placed(c)
  BY DEF CallerInv
<1>2. /\ step[c] = "walk" /\ tried[c] < Addresses /\ tried' = [tried EXCEPT ![c] = @ + 1]
      /\ \/ UNCHANGED <<step, fd, opened>>
         \/ \E s \in Sockets \ opened :
              /\ fd' = [fd EXCEPT ![c] = s] /\ opened' = opened \cup {s}
              /\ step' = [step EXCEPT ![c] = "connecting"]
      /\ UNCHANGED <<vars, setting, ask, route, tunnel, ssl, checked, why, tlsVars>>
  BY DEF TryAddress, At, Goto
<1>3. tried' \in [Callers -> 0 .. Addresses]
  BY <1>1, <1>2, ConnectAssumption DEF CallerTypes
<1>4. CallerTypes'
  BY <1>1, <1>2, <1>3 DEF CallerTypes, Steps, setting, tlsVars
<1>5. Others(c) /\ TlsAside(c)
  BY <1>1, <1>2 DEF Others, TlsAside, CallerTypes, vars
<1>6. SocketMove(c)
  BY <1>1, <1>2 DEF SocketMove, CallerTypes, Placed
<1>7. Placed(c)'
  BY <1>1, <1>2, ConnectAssumption DEF Placed, CallerTypes, vars
<1> QED
  BY <1>4, <1>5, <1>6, <1>7, CallerMoves

\* An address did not answer.
LEMMA AddressFailsKeeps ==
    ASSUME LookupInv, CallerInv, NEW c \in Callers, AddressFails(c)
    PROVE  CallerInv'
<1>1. CallerTypes /\ Placed(c)
  BY DEF CallerInv
<1>2. /\ step[c] = "connecting" /\ opened' = opened \ {fd[c]} /\ fd' = [fd EXCEPT ![c] = None]
      /\ step' = [step EXCEPT ![c] = "walk"]
      /\ UNCHANGED <<vars, setting, ask, route, tried, tunnel, ssl, checked, why, tlsVars>>
  BY DEF AddressFails, At, Goto
<1>3. CallerTypes'
  BY <1>1, <1>2 DEF CallerTypes, Steps, setting, tlsVars
<1>4. Others(c) /\ SocketMove(c) /\ TlsAside(c)
  BY <1>1, <1>2 DEF Others, SocketMove, TlsAside, CallerTypes, vars
<1>5. Placed(c)'
  BY <1>1, <1>2 DEF Placed, CallerTypes, vars
<1> QED
  BY <1>3, <1>4, <1>5, CallerMoves

\* No address answered: the addresses go, and the caller is told.
LEMMA NoAddressLeftKeeps ==
    ASSUME LookupInv, CallerInv, NEW c \in Callers, NoAddressLeft(c)
    PROVE  LookupInv' /\ CallerInv'
<1>1. CallerTypes /\ Placed(c) /\ TypeOK
  BY DEF CallerInv, LookupInv
<1>2. /\ step[c] = "walk" /\ tried[c] = Addresses /\ FreeAddrs(c) /\ Fail(c, "unreachable")
      /\ UNCHANGED <<setting, ask, route, tried, tunnel, ssl, checked, tlsVars>>
  BY DEF NoAddressLeft, At
<1>3. LookupInv'
  BY <1>2, FreeAddrsKeeps
<1>4. /\ step'[c] = "idle" /\ fd'[c] = None /\ why'[c] = "unreachable" /\ opened' = opened \ {fd[c]}
      /\ \A b \in Callers \ {c} : step'[b] = step[b] /\ fd'[b] = fd[b] /\ why'[b] = why[b]
      /\ step' \in [Callers -> Steps] /\ fd' \in [Callers -> Sockets \cup {None}] /\ opened' \subseteq Sockets
      /\ why' \in [Callers -> {"none", "resolve", "unreachable", "tunnel", "memory", "context", "handshake"}]
  BY <1>1, <1>2, FailMoves
<1>5. addrs'[c] = None /\ pc' = pc /\ \A b \in Callers \ {c} : addrs'[b] = addrs[b]
  BY <1>1, <1>2 DEF FreeAddrs, TypeOK
<1>6. CallerTypes'
  BY <1>1, <1>2, <1>4 DEF CallerTypes, setting, tlsVars
<1>7. Others(c) /\ SocketMove(c) /\ TlsAside(c)
  BY <1>2, <1>4, <1>5 DEF Others, SocketMove, TlsAside
<1>8. Placed(c)'
  BY <1>1, <1>2, <1>4, <1>5 DEF Placed
<1> QED
  BY <1>3, <1>6, <1>7, <1>8, CallerMoves

\* An address answered.
LEMMA ConnectedKeeps ==
    ASSUME LookupInv, CallerInv, NEW c \in Callers, Connected(c)
    PROVE  LookupInv' /\ CallerInv'
<1>1. CallerTypes /\ Placed(c) /\ TypeOK
  BY DEF CallerInv, LookupInv
<1>2. /\ step[c] = "connecting" /\ FreeAddrs(c)
      /\ step' = [step EXCEPT ![c] = IF route[c].set /\ ask[c].tls THEN "tunnel" ELSE "create"]
      /\ UNCHANGED <<setting, ask, route, tried, fd, opened, tunnel, ssl, checked, why, tlsVars>>
  BY DEF Connected, At, Goto
<1>3. LookupInv'
  BY <1>2, FreeAddrsKeeps
<1>4. addrs'[c] = None /\ pc' = pc /\ \A b \in Callers \ {c} : addrs'[b] = addrs[b]
  BY <1>1, <1>2 DEF FreeAddrs, TypeOK
<1>5. CallerTypes'
  BY <1>1, <1>2 DEF CallerTypes, Steps, setting, tlsVars
<1>6. Others(c) /\ SocketMove(c) /\ TlsAside(c)
  BY <1>1, <1>2, <1>4 DEF Others, SocketMove, TlsAside, CallerTypes
<1>7. Placed(c)'
  BY <1>1, <1>2, <1>4 DEF Placed, CallerTypes
<1> QED
  BY <1>3, <1>5, <1>6, <1>7, CallerMoves

\* The steps of a caller that may fail: they leave Resolve's state alone, and the
\* socket is closed if they do.
LEMMA FailKeeps ==
    ASSUME CallerInv, NEW c \in Callers, NEW reason \in {"tunnel", "memory", "handshake"},
           Fail(c, reason), step[c] \in {"tunnel", "create", "handshake"},
           ssl' = [ssl EXCEPT ![c] = None], checked' \in [Callers -> BOOLEAN],
           \A b \in Callers \ {c} : checked'[b] = checked[b],
           UNCHANGED <<vars, setting, ask, route, tried, tunnel, tlsVars>>
    PROVE  CallerInv'
<1>1. CallerTypes /\ Placed(c)
  BY DEF CallerInv
<1>2. /\ step'[c] = "idle" /\ fd'[c] = None /\ why'[c] = reason /\ opened' = opened \ {fd[c]}
      /\ \A b \in Callers \ {c} : step'[b] = step[b] /\ fd'[b] = fd[b] /\ why'[b] = why[b]
      /\ step' \in [Callers -> Steps] /\ fd' \in [Callers -> Sockets \cup {None}] /\ opened' \subseteq Sockets
      /\ why' \in [Callers -> {"none", "resolve", "unreachable", "tunnel", "memory", "context", "handshake"}]
  BY <1>1, FailMoves
<1>3. ssl'[c] = None /\ \A b \in Callers \ {c} : ssl'[b] = ssl[b]
  BY <1>1 DEF CallerTypes
<1>4. CallerTypes'
  BY <1>1, <1>2 DEF CallerTypes, setting, tlsVars
<1>5. Others(c) /\ SocketMove(c) /\ TlsAside(c)
  BY <1>2, <1>3 DEF Others, SocketMove, TlsAside, vars
<1>6. Placed(c)'
  BY <1>1, <1>2, <1>3 DEF Placed, vars
<1> QED
  BY <1>4, <1>5, <1>6, CallerMoves

\* The proxy answers the CONNECT, or does not.
LEMMA TunnelKeeps ==
    ASSUME CallerInv, NEW c \in Callers, Tunnel(c)
    PROVE  CallerInv'
<1>1. CallerTypes /\ Placed(c)
  BY DEF CallerInv
<1>2. step[c] = "tunnel" /\ UNCHANGED <<vars, setting, ask, route, tried, ssl, checked, tlsVars>>
  BY DEF Tunnel, At
<1>3. CASE Fail(c, "tunnel") /\ UNCHANGED tunnel
  <2>1. ssl' = [ssl EXCEPT ![c] = None] /\ checked' \in [Callers -> BOOLEAN]
    BY <1>1, <1>2 DEF CallerTypes, Placed
  <2> QED
    BY <1>2, <1>3, <2>1, FailKeeps
<1>4. CASE /\ tunnel' = [tunnel EXCEPT ![c] = TRUE] /\ step' = [step EXCEPT ![c] = "create"]
           /\ UNCHANGED <<fd, opened, why>>
  <2>1. CallerTypes'
    BY <1>1, <1>2, <1>4 DEF CallerTypes, Steps, setting, tlsVars
  <2>2. Others(c) /\ SocketMove(c) /\ TlsAside(c)
    BY <1>1, <1>2, <1>4 DEF Others, SocketMove, TlsAside, CallerTypes, vars
  <2>3. Placed(c)'
    BY <1>1, <1>2, <1>4 DEF Placed, CallerTypes, vars
  <2> QED
    BY <2>1, <2>2, <2>3, CallerMoves
<1> QED
  BY <1>3, <1>4 DEF Tunnel, Goto

\* The connection is allocated, or there is no memory.
LEMMA CreateKeeps ==
    ASSUME CallerInv, NEW c \in Callers, Create(c)
    PROVE  CallerInv'
<1>1. CallerTypes /\ Placed(c)
  BY DEF CallerInv
<1>2. step[c] = "create" /\ UNCHANGED <<vars, setting, ask, route, tried, tunnel, ssl, checked, tlsVars>>
  BY DEF Create, At
<1>3. CASE Fail(c, "memory")
  <2>1. ssl' = [ssl EXCEPT ![c] = None] /\ checked' \in [Callers -> BOOLEAN]
    BY <1>1, <1>2 DEF CallerTypes, Placed
  <2> QED
    BY <1>2, <1>3, <2>1, FailKeeps
<1>4. CASE step' = [step EXCEPT ![c] = IF ask[c].tls THEN "tls" ELSE "up"] /\ UNCHANGED <<fd, opened, why>>
  <2>1. CallerTypes'
    BY <1>1, <1>2, <1>4 DEF CallerTypes, Steps, setting, tlsVars
  <2>2. Others(c) /\ SocketMove(c) /\ TlsAside(c)
    BY <1>1, <1>2, <1>4 DEF Others, SocketMove, TlsAside, CallerTypes, vars
  <2>3. Placed(c)'
    BY <1>1, <1>2, <1>4 DEF Placed, CallerTypes, vars
  <2> QED
    BY <2>1, <2>2, <2>3, CallerMoves
<1> QED
  BY <1>3, <1>4 DEF Create, Goto

\* The handshake succeeds or fails.
LEMMA HandshakeKeeps ==
    ASSUME CallerInv, NEW c \in Callers, Handshake(c)
    PROVE  CallerInv'
<1>1. CallerTypes /\ Placed(c)
  BY DEF CallerInv
<1>2. step[c] = "handshake" /\ ssl[c] # None /\ UNCHANGED <<vars, setting, ask, route, tried, tunnel, tlsVars>>
  BY DEF Handshake, At
<1>3. CASE /\ Fail(c, "handshake") /\ ssl' = [ssl EXCEPT ![c] = None]
           /\ checked' = [checked EXCEPT ![c] = FALSE]
  <2>1. checked' \in [Callers -> BOOLEAN] /\ \A b \in Callers \ {c} : checked'[b] = checked[b]
    BY <1>1, <1>3 DEF CallerTypes
  <2> QED
    BY <1>2, <1>3, <2>1, FailKeeps
<1>4. CASE step' = [step EXCEPT ![c] = "up"] /\ UNCHANGED <<fd, opened, ssl, checked, why>>
  <2>1. CallerTypes'
    BY <1>1, <1>2, <1>4 DEF CallerTypes, Steps, setting, tlsVars
  <2>2. Others(c) /\ SocketMove(c) /\ TlsAside(c)
    BY <1>1, <1>2, <1>4 DEF Others, SocketMove, TlsAside, CallerTypes, vars
  <2>3. Placed(c)'
    BY <1>1, <1>2, <1>4 DEF Placed, CallerTypes, vars
  <2> QED
    BY <2>1, <2>2, <2>3, CallerMoves
<1> QED
  BY <1>3, <1>4 DEF Handshake, Goto

\* The connection is closed.
LEMMA DestroyKeeps ==
    ASSUME CallerInv, NEW c \in Callers, Destroy(c)
    PROVE  CallerInv'
<1>1. CallerTypes /\ Placed(c)
  BY DEF CallerInv
<1>2. /\ step[c] = "up" /\ ssl' = [ssl EXCEPT ![c] = None] /\ checked' = [checked EXCEPT ![c] = FALSE]
      /\ opened' = opened \ {fd[c]} /\ fd' = [fd EXCEPT ![c] = None] /\ step' = [step EXCEPT ![c] = "idle"]
      /\ UNCHANGED <<vars, setting, ask, route, tried, tunnel, why, tlsVars>>
  BY DEF Destroy, At, Goto
<1>3. CallerTypes'
  BY <1>1, <1>2 DEF CallerTypes, Steps, setting, tlsVars
<1>4. Others(c) /\ SocketMove(c) /\ TlsAside(c)
  BY <1>1, <1>2 DEF Others, SocketMove, TlsAside, CallerTypes, vars
<1>5. Placed(c)'
  BY <1>1, <1>2 DEF Placed, CallerTypes, vars
<1> QED
  BY <1>3, <1>4, <1>5, CallerMoves

-----------------------------------------------------------------------------
(* The initialisation of TLS                                               *)

\* The context is there, or is to be made.
LEMMA TlsInitKeeps ==
    ASSUME CallerInv, NEW c \in Callers, TlsInit(c)
    PROVE  CallerInv'
<1>1. CallerTypes /\ Placed(c) /\ TlsInOrder
  BY DEF CallerInv
<1>2. /\ step[c] = "tls"
      /\ IF tlsInited \/ sslCtx # None
           THEN step' = [step EXCEPT ![c] = "handshake"] /\ tlsInited' = TRUE
           ELSE step' = [step EXCEPT ![c] = "context"] /\ tlsInited' = tlsInited
      /\ raced' = (raced \/ (~tlsInited /\ \E d \in Callers \ {c} : step[d] \in {"context", "configure"}))
      /\ UNCHANGED <<vars, setting, ask, route, tried, fd, opened, tunnel, ssl, checked, why, sslCtx, configured>>
  BY DEF TlsInit, At, Goto
<1>3. CallerTypes'
  BY <1>1, <1>2 DEF CallerTypes, Steps, setting
<1>4. Others(c) /\ SocketMove(c)
  BY <1>1, <1>2 DEF Others, SocketMove, CallerTypes, vars
<1>5. Placed(c)'
  BY <1>1, <1>2 DEF Placed, CallerTypes, vars
<1>6. TlsInOrder'
  <2> SUFFICES ASSUME ~raced, tlsInited \/ \A d \in Callers \ {c} : step[d] \notin {"context", "configure"}
               PROVE  TlsInOrder'
    BY <1>2 DEF TlsInOrder
  <2>1. /\ \A b \in Callers : step[b] \in {"context", "configure"} => ~tlsInited
        /\ sslCtx \notin configured \cup {None} => \E b \in Callers : step[b] = "configure"
        /\ tlsInited => sslCtx \in configured
        /\ \A b \in Callers : ssl[b] # None => (checked[b] <=> ~Insecure)
        /\ \A b \in Callers : step[b] \notin {"context", "configure"}
    BY <1>1, <1>2 DEF TlsInOrder
  <2>2. sslCtx \in configured \cup {None} /\ sslCtx' = sslCtx /\ configured' = configured /\ ssl' = ssl /\ checked' = checked
    BY <1>2, <2>1
  <2>3. CASE tlsInited \/ sslCtx # None
    <3>1. tlsInited' /\ sslCtx \in configured /\ \A b \in Callers : step'[b] \notin {"context", "configure"}
      BY <1>1, <1>2, <2>1, <2>2, <2>3 DEF CallerTypes
    <3> QED
      BY InsecureStays, <1>2, <2>1, <2>2, <3>1 DEF TlsInOrder
  <2>4. CASE ~(tlsInited \/ sslCtx # None)
    <3>1. ~tlsInited' /\ step'[c] = "context" /\ \A b \in Callers \ {c} : step'[b] = step[b]
      BY <1>1, <1>2, <2>4 DEF CallerTypes
    <3>2. \A b \in Callers : step[b] # "handshake"
      BY <1>1, <2>4 DEF TlsInOrder
    <3> QED
      BY InsecureStays, <1>2, <2>1, <2>2, <2>4, <3>1, <3>2 DEF TlsInOrder
  <2> QED
    BY <2>3, <2>4
<1> QED
  BY <1>3, <1>4, <1>5, <1>6, CallerMoves

\* A context is made, or none can be.
LEMMA NewContextKeeps ==
    ASSUME CallerInv, NEW c \in Callers, NewContext(c)
    PROVE  CallerInv'
<1>1. CallerTypes /\ Placed(c) /\ TlsInOrder
  BY DEF CallerInv
<1>2. step[c] = "context" /\ UNCHANGED <<vars, setting, ask, route, tried, tunnel, ssl, checked, configured, tlsInited, raced>>
  BY DEF NewContext
<1>3. ASSUME ~raced
      PROVE  /\ ~tlsInited /\ \A b \in Callers \ {c} : step[b] \notin {"context", "configure", "handshake"}
             /\ \A b \in Callers : ssl[b] # None => (checked[b] <=> ~Insecure)
  BY <1>1, <1>2, <1>3 DEF TlsInOrder
<1>4. CASE sslCtx' = None /\ Fail(c, "context")
  <2>1. /\ step'[c] = "idle" /\ fd'[c] = None /\ why'[c] = "context" /\ opened' = opened \ {fd[c]}
        /\ \A b \in Callers \ {c} : step'[b] = step[b] /\ fd'[b] = fd[b] /\ why'[b] = why[b]
        /\ step' \in [Callers -> Steps] /\ fd' \in [Callers -> Sockets \cup {None}] /\ opened' \subseteq Sockets
        /\ why' \in [Callers -> {"none", "resolve", "unreachable", "tunnel", "memory", "context", "handshake"}]
    BY <1>1, <1>4, FailMoves
  <2>2. CallerTypes'
    BY <1>1, <1>2, <1>4, <2>1 DEF CallerTypes, setting
  <2>3. Others(c) /\ SocketMove(c)
    BY <1>2, <2>1 DEF Others, SocketMove, vars
  <2>4. Placed(c)'
    BY <1>1, <1>2, <2>1 DEF Placed, vars
  <2>5. TlsInOrder'
    BY InsecureStays, <1>2, <1>3, <1>4, <2>1 DEF TlsInOrder
  <2> QED
    BY <2>2, <2>3, <2>4, <2>5, CallerMoves
<1>5. CASE /\ \E x \in Contexts \ (configured \cup {sslCtx}) : sslCtx' = x
           /\ step' = [step EXCEPT ![c] = "configure"] /\ UNCHANGED <<fd, opened, why>>
  <2>1. CallerTypes'
    BY <1>1, <1>2, <1>5 DEF CallerTypes, Steps, setting
  <2>2. Others(c) /\ SocketMove(c)
    BY <1>1, <1>2, <1>5 DEF Others, SocketMove, CallerTypes, vars
  <2>3. Placed(c)'
    BY <1>1, <1>2, <1>5 DEF Placed, CallerTypes, vars
  <2>4. TlsInOrder'
    <3>1. sslCtx' # None /\ step'[c] = "configure" /\ \A b \in Callers \ {c} : step'[b] = step[b]
      BY <1>1, <1>5, ConnectAssumption DEF CallerTypes
    <3> QED
      BY InsecureStays, <1>2, <1>3, <3>1 DEF TlsInOrder
  <2> QED
    BY <2>1, <2>2, <2>3, <2>4, CallerMoves
<1> QED
  BY <1>4, <1>5 DEF NewContext, Goto

\* The context verifies certificates from now on.
LEMMA ConfigureKeeps ==
    ASSUME CallerInv, NEW c \in Callers, Configure(c)
    PROVE  CallerInv'
<1>1. CallerTypes /\ Placed(c) /\ TlsInOrder
  BY DEF CallerInv
<1>2. /\ step[c] = "configure" /\ configured' = configured \cup ({sslCtx} \ {None}) /\ tlsInited' = TRUE
      /\ step' = [step EXCEPT ![c] = "handshake"]
      /\ UNCHANGED <<vars, setting, ask, route, tried, fd, opened, tunnel, ssl, checked, why, sslCtx, raced>>
  BY DEF Configure, Goto
<1>3. CallerTypes'
  BY <1>1, <1>2 DEF CallerTypes, Steps, setting
<1>4. Others(c) /\ SocketMove(c)
  BY <1>1, <1>2 DEF Others, SocketMove, CallerTypes, vars
<1>5. Placed(c)'
  BY <1>1, <1>2 DEF Placed, CallerTypes, vars
<1>6. TlsInOrder'
  <2>1. ASSUME ~raced
        PROVE  /\ sslCtx # None /\ \A b \in Callers \ {c} : step[b] \notin {"context", "configure"}
               /\ \A b \in Callers : ssl[b] # None => (checked[b] <=> ~Insecure)
    BY <1>1, <1>2, <2>1 DEF TlsInOrder
  <2>2. \A b \in Callers : step'[b] = IF b = c THEN "handshake" ELSE step[b]
    BY <1>1, <1>2 DEF CallerTypes
  <2> QED
    BY InsecureStays, <1>2, <2>1, <2>2 DEF TlsInOrder
<1> QED
  BY <1>3, <1>4, <1>5, <1>6, CallerMoves

\* An SSL object is made of the context there is.
LEMMA NewSslKeeps ==
    ASSUME CallerInv, NEW c \in Callers, NewSsl(c)
    PROVE  CallerInv'
<1>1. CallerTypes /\ Placed(c) /\ TlsInOrder
  BY DEF CallerInv
<1>2. step[c] = "handshake" /\ ssl[c] = None /\ UNCHANGED <<vars, setting, ask, route, tried, tunnel, tlsVars>>
  BY DEF NewSsl, At
<1>3. CASE Fail(c, "handshake") /\ UNCHANGED <<ssl, checked>>
  <2>1. ssl' = [ssl EXCEPT ![c] = None] /\ checked' \in [Callers -> BOOLEAN]
    BY <1>1, <1>2, <1>3 DEF CallerTypes
  <2> QED
    BY <1>2, <1>3, <2>1, FailKeeps
<1>4. CASE /\ sslCtx # None /\ ssl' = [ssl EXCEPT ![c] = sslCtx]
           /\ checked' = [checked EXCEPT ![c] = sslCtx \in configured /\ ~Insecure]
           /\ UNCHANGED <<step, fd, opened, why>>
  <2>1. CallerTypes'
    BY <1>1, <1>2, <1>4 DEF CallerTypes, Steps, setting, tlsVars
  <2>2. Others(c) /\ SocketMove(c)
    BY <1>1, <1>2, <1>4 DEF Others, SocketMove, CallerTypes, vars
  <2>3. Placed(c)'
    BY <1>1, <1>2, <1>4 DEF Placed, CallerTypes, vars
  <2>4. TlsInOrder'
    <3>1. (checked'[c] <=> sslCtx \in configured /\ ~Insecure) /\ \A b \in Callers \ {c} : checked'[b] = checked[b] /\ ssl'[b] = ssl[b]
      BY <1>1, <1>4 DEF CallerTypes
    <3>2. /\ \A b \in Callers : step'[b] = step[b]
          /\ sslCtx' = sslCtx /\ configured' = configured /\ tlsInited' = tlsInited /\ raced' = raced
          /\ (Insecure' <=> Insecure)
      BY <1>2, <1>4 DEF tlsVars, setting, Insecure
    <3> QED
      BY <1>1, <1>2, <3>1, <3>2 DEF TlsInOrder
  <2> QED
    BY <2>1, <2>2, <2>3, <2>4, CallerMoves
<1> QED
  BY <1>3, <1>4 DEF NewSsl

-----------------------------------------------------------------------------
(* The theorems                                                            *)

\* At the start no caller and no Lookup has anything.
LEMMA InitKeeps == ConnectInit => LookupInv /\ CallerInv
<1> SUFFICES ASSUME ConnectInit PROVE LookupInv /\ CallerInv
  OBVIOUS
<1>1. TypeOK
  BY ResolveAssumption DEF ConnectInit, Init, TypeOK
<1>2. RefsExact
  BY ResolveAssumption DEF ConnectInit, Init, RefsExact, Used, Creating, Bit
<1>3. AddressesOwned /\ AnswerIsWhole /\ LookupsInOrder
  BY ResolveAssumption DEF ConnectInit, Init, AddressesOwned, AnswerIsWhole, LookupsInOrder
<1>4. CallerTypes
  <2>1. /\ config \in Nat /\ DOMAIN ask = Callers /\ DOMAIN route = Callers
        /\ step \in [Callers -> Steps] /\ tried \in [Callers -> 0 .. Addresses]
    BY ConnectAssumption DEF ConnectInit, Steps
  <2> QED
    BY <2>1 DEF ConnectInit, CallerTypes
<1>5. SocketsApart /\ TlsInOrder
  BY DEF ConnectInit, SocketsApart, TlsInOrder
<1>6. \A c \in Callers : Placed(c)
  BY DEF ConnectInit, Init, Placed
<1> QED
  BY <1>1, <1>2, <1>3, <1>4, <1>5, <1>6 DEF LookupInv, CallerInv

\* Every step keeps the invariant.
LEMMA StepKeeps == LookupInv /\ CallerInv /\ [ConnectNext]_allVars => LookupInv' /\ CallerInv'
<1> SUFFICES ASSUME LookupInv, CallerInv, [ConnectNext]_allVars PROVE LookupInv' /\ CallerInv'
  OBVIOUS
<1>1. CASE UNCHANGED allVars
  <2>1. UNCHANGED vars /\ UNCHANGED connVars
    BY <1>1 DEF allVars
  <2>2. CallerInv'
    BY <2>1 DEF CallerInv, CallerTypes, SocketsApart, Placed, TlsInOrder, Insecure, vars, connVars, setting, tlsVars
  <2> QED
    BY <2>1, <2>2, LookupStays
<1>2. ASSUME NEW l \in Lookups, Thread(l), UNCHANGED connVars PROVE LookupInv' /\ CallerInv'
  <2>1. LookupInv'
    BY <1>2, GetAddrInfoKeeps, SignalKeeps, ThreadLetsGoKeeps DEF Thread
  <2>2. UNCHANGED <<pc, addrs>>
    BY <1>2 DEF Thread, GetAddrInfo, Signal, ThreadLetsGo
  <2>3. CallerInv'
    BY <1>2, <2>2 DEF CallerInv, CallerTypes, SocketsApart, Placed, TlsInOrder, Insecure, connVars, setting, tlsVars
  <2> QED
    BY <2>1, <2>3
<1>3. ASSUME NEW c \in Callers, Route(c) PROVE LookupInv' /\ CallerInv'
  BY <1>3, RouteKeeps, LookupStays DEF Route
<1>4. ASSUME NEW c \in Callers, StartResolve(c) PROVE LookupInv' /\ CallerInv'
  BY <1>4, StartResolveKeeps
<1>5. ASSUME NEW c \in Callers, KeepResolving(c) PROVE LookupInv' /\ CallerInv'
  BY <1>5, KeepResolvingKeeps
<1>6. ASSUME NEW c \in Callers, HaveAddresses(c) PROVE LookupInv' /\ CallerInv'
  BY <1>6, HaveAddressesKeeps, LookupStays DEF HaveAddresses
<1>7. ASSUME NEW c \in Callers, TryAddress(c) PROVE LookupInv' /\ CallerInv'
  BY <1>7, TryAddressKeeps, LookupStays DEF TryAddress
<1>8. ASSUME NEW c \in Callers, AddressFails(c) PROVE LookupInv' /\ CallerInv'
  BY <1>8, AddressFailsKeeps, LookupStays DEF AddressFails
<1>9. ASSUME NEW c \in Callers, NoAddressLeft(c) PROVE LookupInv' /\ CallerInv'
  BY <1>9, NoAddressLeftKeeps
<1>10. ASSUME NEW c \in Callers, Connected(c) PROVE LookupInv' /\ CallerInv'
  BY <1>10, ConnectedKeeps
<1>11. ASSUME NEW c \in Callers, Tunnel(c) PROVE LookupInv' /\ CallerInv'
  BY <1>11, TunnelKeeps, LookupStays DEF Tunnel
<1>12. ASSUME NEW c \in Callers, Create(c) PROVE LookupInv' /\ CallerInv'
  BY <1>12, CreateKeeps, LookupStays DEF Create
<1>13. ASSUME NEW c \in Callers, TlsInit(c) PROVE LookupInv' /\ CallerInv'
  BY <1>13, TlsInitKeeps, LookupStays DEF TlsInit
<1>14. ASSUME NEW c \in Callers, NewContext(c) PROVE LookupInv' /\ CallerInv'
  BY <1>14, NewContextKeeps, LookupStays DEF NewContext
<1>15. ASSUME NEW c \in Callers, Configure(c) PROVE LookupInv' /\ CallerInv'
  BY <1>15, ConfigureKeeps, LookupStays DEF Configure
<1>16. ASSUME NEW c \in Callers, NewSsl(c) PROVE LookupInv' /\ CallerInv'
  BY <1>16, NewSslKeeps, LookupStays DEF NewSsl
<1>17. ASSUME NEW c \in Callers, Handshake(c) PROVE LookupInv' /\ CallerInv'
  BY <1>17, HandshakeKeeps, LookupStays DEF Handshake
<1>18. ASSUME NEW c \in Callers, Destroy(c) PROVE LookupInv' /\ CallerInv'
  BY <1>18, DestroyKeeps, LookupStays DEF Destroy
<1> QED
  BY <1>1, <1>2, <1>3, <1>4, <1>5, <1>6, <1>7, <1>8, <1>9, <1>10, <1>11, <1>12, <1>13, <1>14, <1>15, <1>16,
     <1>17, <1>18 DEF ConnectNext, Step

\* Sockets, addresses and Lookups have their owners and are freed by them, the
\* answer of a resolution is whole, and TLS is initialised by one caller at a
\* time if none begins beside another.
THEOREM ConnectSafe == ConnectSpec => []ConnectInv
BY InitKeeps, StepKeeps, InvParts, PTL DEF ConnectSpec
=============================================================================
