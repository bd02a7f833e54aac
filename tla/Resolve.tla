------------------------------- MODULE Resolve -------------------------------
(***************************************************************************)
(* Name resolution off the loop (corRestResolve.c): a coroutine hands the  *)
(* name to a detached thread and waits, yielding, for its eventfd - at     *)
(* most ten seconds.  The two share a Lookup; whoever lets go last frees   *)
(* it, and the addresses with it unless the coroutine took them.           *)
(***************************************************************************)
EXTENDS Naturals, FiniteSets

CONSTANTS
  Callers,    \* coroutines that resolve names
  Lookups,    \* the Lookup structs there may be at once
  MaxCalls,   \* bound: the names one of them resolves
  None

ASSUME ResolveAssumption ==
  /\ None \notin Lookups /\ Callers \cap Lookups = {}
  /\ MaxCalls \in Nat

VARIABLES
  pc,      \* the caller
  calls,
  lP,      \* lP[c]: its Lookup
  rc,      \* rc[c]: what corRestResolve returned last
  addrs,   \* addrs[c]: the Lookup whose addresses the caller has, to freeaddrinfo
  thread,  \* thread[l]: the thread of Lookup l
  refs, alive,      \* per Lookup: its references, and whether it is allocated
  resP,             \* per Lookup: it holds addresses
  lrc,              \* per Lookup: what getaddrinfo said, once it did
  signalled,        \* per Lookup: its eventfd
  known       \* the addresses that are allocated, named by the Lookup they were
              \* found for, or by one there is not if no thread looked for them

vars == <<pc, calls, lP, rc, addrs, thread, refs, alive, resP, lrc, signalled, known>>

TypeOK ==
  /\ pc \in [Callers -> {"idle", "create", "wait", "release"}]
  /\ calls \in [Callers -> 0 .. MaxCalls]
  /\ lP \in [Callers -> Lookups \cup {None}]
  /\ rc \in [Callers -> {"none", "ok", "fail", "again"}]
  /\ addrs \in [Callers -> Lookups \cup {None}]
  /\ thread \in [Lookups -> {"none", "resolve", "signal", "release"}]
  /\ refs \in [Lookups -> 0 .. 2]
  /\ alive \subseteq Lookups
  /\ resP \subseteq Lookups
  /\ lrc \in [Lookups -> {"none", "ok", "fail"}]
  /\ signalled \subseteq Lookups
  /\ known \subseteq Lookups

Init ==
  /\ pc = [c \in Callers |-> "idle"]
  /\ calls = [c \in Callers |-> 0]
  /\ lP = [c \in Callers |-> None]
  /\ rc = [c \in Callers |-> "none"]
  /\ addrs = [c \in Callers |-> None]
  /\ thread = [l \in Lookups |-> "none"]
  /\ refs = [l \in Lookups |-> 0]
  /\ alive = {} /\ resP = {} /\ signalled = {} /\ known = {}
  /\ lrc = [l \in Lookups |-> "none"]

\* lookupRelease
Release(l) ==
  /\ refs' = [refs EXCEPT ![l] = @ - 1]
  /\ IF refs[l] = 1
     THEN /\ alive' = alive \ {l}
          /\ known' = IF l \in resP THEN known \ {l} ELSE known
          /\ resP' = resP \ {l}
          /\ signalled' = signalled \ {l}
     ELSE UNCHANGED <<alive, known, resP, signalled>>

\* getaddrinfo, called by the caller itself: what it finds is the caller's
AskHere(c, l) ==
  \/ /\ rc' = [rc EXCEPT ![c] = "ok"]
     /\ addrs' = [addrs EXCEPT ![c] = l] /\ known' = known \cup {l}
  \/ /\ rc' = [rc EXCEPT ![c] = "fail"]
     /\ UNCHANGED <<addrs, known>>

\* an address, localhost, a caller that is no coroutine, or no memory
Direct(c) ==
  /\ pc[c] = "idle" /\ calls[c] < MaxCalls /\ addrs[c] = None
  /\ calls' = [calls EXCEPT ![c] = @ + 1]
  /\ \E l \in Lookups \ (alive \cup known) : AskHere(c, l)
  /\ UNCHANGED <<pc, lP, thread, refs, alive, resP, lrc, signalled>>

\* a Lookup, with two references
Begin(c) ==
  /\ pc[c] = "idle" /\ calls[c] < MaxCalls /\ addrs[c] = None
  /\ calls' = [calls EXCEPT ![c] = @ + 1]
  /\ \E l \in Lookups \ (alive \cup known) :
       /\ lP' = [lP EXCEPT ![c] = l]
       /\ alive' = alive \cup {l}
       /\ refs' = [refs EXCEPT ![l] = 2]
       /\ lrc' = [lrc EXCEPT ![l] = "none"]
  /\ pc' = [pc EXCEPT ![c] = "create"]
  /\ UNCHANGED <<rc, addrs, thread, resP, signalled, known>>

CreateThread(c) ==
  /\ pc[c] = "create"
  /\ thread' = [thread EXCEPT ![lP[c]] = "resolve"]
  /\ pc' = [pc EXCEPT ![c] = "wait"]
  /\ UNCHANGED <<calls, lP, rc, addrs, refs, alive, resP, lrc, signalled, known>>

\* mutant: the reference of the thread there is not stays
NoThreadLeaks(c) ==
  LET l == lP[c]
  IN /\ pc[c] = "create"
     /\ refs' = [refs EXCEPT ![l] = 1]
     /\ lP' = [lP EXCEPT ![c] = None]
     /\ AskHere(c, l)
     /\ pc' = [pc EXCEPT ![c] = "idle"]
     /\ UNCHANGED <<calls, thread, alive, resP, lrc, signalled>>

\* no thread: its reference taken back, and getaddrinfo called here
NoThread(c) ==
  LET l == lP[c]
  IN /\ pc[c] = "create"
     /\ refs' = [refs EXCEPT ![l] = 0]
     /\ alive' = alive \ {l}
     /\ lP' = [lP EXCEPT ![c] = None]
     /\ AskHere(c, l)
     /\ pc' = [pc EXCEPT ![c] = "idle"]
     /\ UNCHANGED <<calls, thread, resP, lrc, signalled>>

\* the eventfd is readable: the addresses are the caller's now
Resolved(c) ==
  LET l == lP[c]
  IN /\ pc[c] = "wait" /\ l \in signalled
     /\ rc' = [rc EXCEPT ![c] = lrc[l]]
     /\ addrs' = [addrs EXCEPT ![c] = IF l \in resP THEN l ELSE None]
     /\ resP' = resP \ {l}
     /\ pc' = [pc EXCEPT ![c] = "release"]
     /\ UNCHANGED <<calls, lP, thread, refs, alive, lrc, signalled, known>>

\* ten seconds, or the loop is stopping: EAI_AGAIN
TimedOut(c) ==
  /\ pc[c] = "wait"
  /\ rc' = [rc EXCEPT ![c] = "again"]
  /\ pc' = [pc EXCEPT ![c] = "release"]
  /\ UNCHANGED <<calls, lP, addrs, thread, refs, alive, resP, lrc, signalled, known>>

LetGo(c) ==
  /\ pc[c] = "release"
  /\ Release(lP[c])
  /\ lP' = [lP EXCEPT ![c] = None]
  /\ pc' = [pc EXCEPT ![c] = "idle"]
  /\ UNCHANGED <<calls, rc, addrs, thread, lrc>>

\* the caller is done with the addresses: freeaddrinfo
FreeAddrs(c) ==
  /\ pc[c] = "idle" /\ addrs[c] # None
  /\ known' = known \ {addrs[c]}
  /\ addrs' = [addrs EXCEPT ![c] = None]
  /\ UNCHANGED <<pc, calls, lP, rc, thread, refs, alive, resP, lrc, signalled>>

\* lookupThread
GetAddrInfo(l) ==
  /\ thread[l] = "resolve"
  /\ \/ /\ lrc' = [lrc EXCEPT ![l] = "ok"]
        /\ resP' = resP \cup {l} /\ known' = known \cup {l}
     \/ /\ lrc' = [lrc EXCEPT ![l] = "fail"]
        /\ UNCHANGED <<resP, known>>
  /\ thread' = [thread EXCEPT ![l] = "signal"]
  /\ UNCHANGED <<pc, calls, lP, rc, addrs, refs, alive, signalled>>

Signal(l) ==
  /\ thread[l] = "signal"
  /\ signalled' = signalled \cup {l}
  /\ thread' = [thread EXCEPT ![l] = "release"]
  /\ UNCHANGED <<pc, calls, lP, rc, addrs, refs, alive, resP, lrc, known>>

ThreadLetsGo(l) ==
  /\ thread[l] = "release"
  /\ Release(l)
  /\ thread' = [thread EXCEPT ![l] = "none"]
  /\ UNCHANGED <<pc, calls, lP, rc, addrs, lrc>>

Thread(l) == GetAddrInfo(l) \/ Signal(l) \/ ThreadLetsGo(l)

-----------------------------------------------------------------------------
(* Properties                                                              *)

Holders(l) ==
  {c \in Callers : lP[c] = l} \cup (IF thread[l] = "none" THEN {} ELSE {l})

\* The count is the number of those who may still touch the Lookup - the
\* thread to be created counted already - and it is allocated as long as there
\* is one: however late the thread, neither reads or closes what is freed.
HeldWhileUsed ==
  \A l \in Lookups :
    /\ Holders(l) # {} => l \in alive
    /\ l \in alive => refs[l] = Cardinality(Holders(l)) + (IF \E c \in Callers : lP[c] = l /\ pc[c] = "create" THEN 1 ELSE 0)
    /\ l \in alive <=> refs[l] > 0

\* A Lookup serves one call.  Its thread writes to it once, before it signals and
\* never after; what it found is there until it is taken, and nothing of it is
\* left when it is freed.
LookupsInOrder ==
  /\ \A b, c \in Callers : lP[b] = lP[c] /\ lP[b] # None => b = c
  /\ \A c \in Callers :
       /\ pc[c] = "idle" <=> lP[c] = None
       /\ pc[c] \in {"create", "wait"} => addrs[c] = None
       /\ pc[c] = "create" => thread[lP[c]] = "none" /\ lP[c] \notin known \cup signalled
       /\ pc[c] = "wait" /\ thread[lP[c]] # "resolve" =>
            lrc[lP[c]] # "none" /\ (lrc[lP[c]] = "ok" <=> lP[c] \in resP)
       /\ pc[c] = "release" /\ rc[c] # "again" => lP[c] \in signalled
       /\ addrs[c] \in known \cup {None}
  /\ \A l \in Lookups :
       /\ thread[l] = "resolve" => l \notin known
       /\ l \in signalled => thread[l] \in {"release", "none"}
  /\ resP \subseteq known /\ resP \cup signalled \subseteq alive

\* The addresses found are somebody's to free, and one party's only: the
\* Lookup's, or the caller's that took them - a late answer is not leaked.
AddressesOwned ==
  \A l \in known :
    /\ l \in resP <=> \A c \in Callers : addrs[c] # l
    /\ l \in resP => l \in alive
    /\ \A b, c \in Callers : addrs[b] = l /\ addrs[c] = l => b = c

\* What a caller is told is what the thread's getaddrinfo has said, and it has
\* the addresses exactly if that was success - however the answer and the ten
\* seconds race.
AnswerIsWhole ==
  \A c \in Callers : pc[c] = "release" /\ rc[c] # "again" =>
    rc[c] = lrc[lP[c]] /\ rc[c] # "none" /\ (rc[c] = "ok") = (addrs[c] # None)
=============================================================================
