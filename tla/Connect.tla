------------------------------- MODULE Connect -------------------------------
(***************************************************************************)
(* How the HTTP client comes by a new connection: connCreate and           *)
(* tcpConnect of corRestClient.c, with the proxy and its tunnel            *)
(* (corRestClientProxy.c), the TLS context of the process and the          *)
(* handshake (corRestClientTls.c), and the addresses from Resolve.         *)
(*                                                                         *)
(* A caller is a coroutine or a thread, on[c] the thread that runs it.     *)
(* Waits for a socket or a Lookup let the other callers of the thread run; *)
(* the tunnel's poll() and the making of the context do not.               *)
(***************************************************************************)
EXTENDS Resolve, ProxyRoute

CONSTANTS
    Configs,    \* what corRestClientProxySet may be given, a sequence of [http,
                \* https, list]; with on[c], the thread that then runs caller c, and
                \* asks[c], what c may connect to: [tls, host]; and insecure, what
                \* corRestClientTlsInsecureSet was called with at the start
    Addresses,  \* how many addresses a name has
    Sockets,    \* bound: the descriptors there may be at once
    Contexts    \* bound: the SSL contexts that may be made

ASSUME ConnectAssumption ==
    /\ Addresses \in Nat \ {0}
    /\ DOMAIN Configs \subseteq Nat
    /\ None \notin Sockets \cup Contexts

VARIABLES
    config,     \* which of Configs was given
    on,         \* on[c]: the thread of caller c
    step,       \* where the caller is in connCreate
    ask,        \* the host and scheme it was called with
    route,      \* the proxy it goes through, or NoProxy
    tried,      \* how many addresses it has tried
    fd,         \* its socket
    opened,     \* the sockets that are open
    tunnel,     \* the proxy has opened a tunnel to the host
    ssl,        \* the context its SSL object was made from
    checked,    \* that object verifies the certificate, and whose it is
    why,        \* what its caller was told when there is no connection
    sslCtx,     \* the context of the process
    configured, \* the contexts SSL_CTX_set_verify was called for; before, none verifies
    tlsInited,  \* somebody's initialisation has succeeded
    raced       \* history: one began while another's was under way

tlsVars == <<sslCtx, configured, tlsInited, raced>>

setting == <<config, on>>

connVars == <<setting, step, ask, route, tried, fd, opened, tunnel, ssl, checked, why, tlsVars>>

allVars == <<vars, connVars>>

\* httpProxy, httpsProxy and noProxy, once they are set
Proxies == [i \in DOMAIN Configs |-> ProxySet(Configs[i].http.text, Configs[i].https.text, Configs[i].list)]

Insecure == Configs[config].insecure

Steps == {"idle", "resolve", "resolving", "walk", "connecting", "tunnel", "create", "tls",
          "context", "configure", "handshake", "up"}

ConnectTypeOK ==
    /\ TypeOK
    /\ config \in Nat
    /\ DOMAIN ask = Callers /\ DOMAIN route = Callers
    /\ step \in [Callers -> Steps]
    /\ tried \in [Callers -> 0 .. Addresses]
    /\ fd \in [Callers -> Sockets \cup {None}]
    /\ opened \subseteq Sockets
    /\ tunnel \in [Callers -> BOOLEAN] /\ checked \in [Callers -> BOOLEAN]
    /\ ssl \in [Callers -> Contexts \cup {None}]
    /\ why \in [Callers -> {"none", "resolve", "unreachable", "tunnel", "memory", "context", "handshake"}]
    /\ sslCtx \in Contexts \cup {None}
    /\ configured \subseteq Contexts
    /\ tlsInited \in BOOLEAN /\ raced \in BOOLEAN

ConnectInit ==
    /\ Init
    /\ config \in DOMAIN Configs
    /\ on = Configs[config].on
    /\ step = [c \in Callers |-> "idle"]
    /\ ask = [c \in Callers |-> None]
    /\ route = [c \in Callers |-> NoProxy]
    /\ tried = [c \in Callers |-> 0]
    /\ fd = [c \in Callers |-> None]
    /\ opened = {}
    /\ tunnel = [c \in Callers |-> FALSE]
    /\ ssl = [c \in Callers |-> None]
    /\ checked = [c \in Callers |-> FALSE]
    /\ why = [c \in Callers |-> "none"]
    /\ sslCtx = None
    /\ configured = {}
    /\ tlsInited = FALSE /\ raced = FALSE

\* c runs at this step: nobody holds its thread
At(c, s) ==
    /\ step[c] = s
    /\ \A d \in Callers \ {c} : on[d] = on[c] => step[d] \notin {"tunnel", "context", "configure"}

Goto(c, s) == step' = [step EXCEPT ![c] = s]

\* connCreate fails: the socket is closed, if there is one, and the caller told
Fail(c, reason) ==
    /\ Goto(c, "idle")
    /\ opened' = opened \ {fd[c]}
    /\ fd' = [fd EXCEPT ![c] = None]
    /\ why' = [why EXCEPT ![c] = reason]

----------------------------------------------------------------------------
(* tcpConnect *)

Route(c) ==
    /\ At(c, "idle")
    /\ calls[c] < MaxCalls
    /\ \E a \in Configs[config].asks[c] :
          /\ ask' = [ask EXCEPT ![c] = a]
          /\ route' = [route EXCEPT ![c] = ProxyFor(Proxies[config], a.tls, a.host)]
    /\ tried' = [tried EXCEPT ![c] = 0]
    /\ tunnel' = [tunnel EXCEPT ![c] = FALSE]
    /\ why' = [why EXCEPT ![c] = "none"]
    /\ Goto(c, "resolve")
    /\ UNCHANGED <<vars, setting, fd, opened, ssl, checked, tlsVars>>

\* corRestResolve, as Resolve has it
StartResolve(c) ==
    /\ At(c, "resolve")
    /\ Begin(c) \/ Direct(c)
    /\ Goto(c, "resolving")
    /\ UNCHANGED <<setting, ask, route, tried, fd, opened, tunnel, ssl, checked, why, tlsVars>>

KeepResolving(c) ==
    /\ At(c, "resolving")
    /\ CreateThread(c) \/ NoThread(c) \/ Resolved(c) \/ TimedOut(c) \/ LetGo(c)
    /\ UNCHANGED connVars

HaveAddresses(c) ==
    /\ At(c, "resolving")
    /\ pc[c] = "idle"
    /\ IF addrs[c] = None
       THEN Fail(c, "resolve")
       ELSE Goto(c, "walk") /\ UNCHANGED <<fd, opened, why>>
    /\ UNCHANGED <<vars, setting, ask, route, tried, tunnel, ssl, checked, tlsVars>>

\* The next address: no socket, or refused at once; or being connected to
TryAddress(c) ==
    /\ At(c, "walk")
    /\ tried[c] < Addresses
    /\ tried' = [tried EXCEPT ![c] = @ + 1]
    /\ \/ UNCHANGED <<step, fd, opened>>
       \/ \E s \in Sockets \ opened :
             /\ fd' = [fd EXCEPT ![c] = s]
             /\ opened' = opened \cup {s}
             /\ Goto(c, "connecting")
    /\ UNCHANGED <<vars, setting, ask, route, tunnel, ssl, checked, why, tlsVars>>

\* Mutant: the socket of an address that did not answer is not closed
AddressFailsOpen(c) ==
    /\ At(c, "connecting")
    /\ fd' = [fd EXCEPT ![c] = None]
    /\ Goto(c, "walk")
    /\ UNCHANGED <<vars, setting, ask, route, tried, opened, tunnel, ssl, checked, why, tlsVars>>

\* The wait for it timed out, or SO_ERROR: on to the next
AddressFails(c) ==
    /\ At(c, "connecting")
    /\ opened' = opened \ {fd[c]}
    /\ fd' = [fd EXCEPT ![c] = None]
    /\ Goto(c, "walk")
    /\ UNCHANGED <<vars, setting, ask, route, tried, tunnel, ssl, checked, why, tlsVars>>

NoAddressLeft(c) ==
    /\ At(c, "walk")
    /\ tried[c] = Addresses
    /\ FreeAddrs(c)
    /\ Fail(c, "unreachable")
    /\ UNCHANGED <<setting, ask, route, tried, tunnel, ssl, checked, tlsVars>>

\* Connected: the addresses go; through a proxy to https, a tunnel is next
Connected(c) ==
    /\ At(c, "connecting")
    /\ FreeAddrs(c)
    /\ Goto(c, IF route[c].set /\ ask[c].tls THEN "tunnel" ELSE "create")
    /\ UNCHANGED <<setting, ask, route, tried, fd, opened, tunnel, ssl, checked, why, tlsVars>>

----------------------------------------------------------------------------
(* The rest of connCreate *)

\* corRestClientProxyTunnel: a 2xx; or a refusal, no answer in time, the end
Tunnel(c) ==
    /\ At(c, "tunnel")
    /\ \/ /\ tunnel' = [tunnel EXCEPT ![c] = TRUE]
          /\ Goto(c, "create")
          /\ UNCHANGED <<fd, opened, why>>
       \/ Fail(c, "tunnel") /\ UNCHANGED tunnel
    /\ UNCHANGED <<vars, setting, ask, route, tried, ssl, checked, tlsVars>>

Create(c) ==
    /\ At(c, "create")
    /\ \/ Goto(c, IF ask[c].tls THEN "tls" ELSE "up") /\ UNCHANGED <<fd, opened, why>>
       \/ Fail(c, "memory")
    /\ UNCHANGED <<vars, setting, ask, route, tried, tunnel, ssl, checked, tlsVars>>

\* corRestClientTlsInit: the context is tested without a lock ...
TlsInit(c) ==
    LET under == \E d \in Callers \ {c} : step[d] \in {"context", "configure"}
    IN  /\ At(c, "tls")
        /\ IF tlsInited \/ sslCtx # None
           THEN Goto(c, "handshake") /\ tlsInited' = TRUE
           ELSE Goto(c, "context") /\ UNCHANGED tlsInited
        /\ raced' = (raced \/ (~tlsInited /\ under))
        /\ UNCHANGED <<vars, setting, ask, route, tried, fd, opened, tunnel, ssl, checked, why, sslCtx, configured>>

\* ... made, which may fail ...
NewContext(c) ==
    /\ step[c] = "context"
    /\ \/ \E x \in Contexts \ (configured \cup {sslCtx}) : sslCtx' = x
          /\ Goto(c, "configure")
          /\ UNCHANGED <<fd, opened, why>>
       \/ sslCtx' = None /\ Fail(c, "context")
    /\ UNCHANGED <<vars, setting, ask, route, tried, tunnel, ssl, checked, configured, tlsInited, raced>>

\* ... and told whether to verify certificates, whichever context is the process's now
Configure(c) ==
    /\ step[c] = "configure"
    /\ configured' = configured \cup ({sslCtx} \ {None})
    /\ tlsInited' = TRUE
    /\ Goto(c, "handshake")
    /\ UNCHANGED <<vars, setting, ask, route, tried, fd, opened, tunnel, ssl, checked, why, sslCtx, raced>>

\* corRestClientTlsConnect: an SSL object of the context; the handshake waits
NewSsl(c) ==
    /\ At(c, "handshake")
    /\ ssl[c] = None
    /\ IF sslCtx = None
       THEN Fail(c, "handshake") /\ UNCHANGED <<ssl, checked>>
       ELSE /\ ssl' = [ssl EXCEPT ![c] = sslCtx]
            /\ checked' = [checked EXCEPT ![c] = sslCtx \in configured /\ ~Insecure]
            /\ UNCHANGED <<step, fd, opened, why>>
    /\ UNCHANGED <<vars, setting, ask, route, tried, tunnel, tlsVars>>

Handshake(c) ==
    /\ At(c, "handshake")
    /\ ssl[c] # None
    /\ \/ Goto(c, "up") /\ UNCHANGED <<fd, opened, ssl, checked, why>>
       \/ /\ Fail(c, "handshake")
          /\ ssl' = [ssl EXCEPT ![c] = None]
          /\ checked' = [checked EXCEPT ![c] = FALSE]
    /\ UNCHANGED <<vars, setting, ask, route, tried, tunnel, tlsVars>>

\* The connection has served: connDestroy
Destroy(c) ==
    /\ At(c, "up")
    /\ ssl' = [ssl EXCEPT ![c] = None]
    /\ checked' = [checked EXCEPT ![c] = FALSE]
    /\ opened' = opened \ {fd[c]}
    /\ fd' = [fd EXCEPT ![c] = None]
    /\ Goto(c, "idle")
    /\ UNCHANGED <<vars, setting, ask, route, tried, tunnel, why, tlsVars>>

Step(c) ==
    \/ StartResolve(c) \/ KeepResolving(c) \/ HaveAddresses(c)
    \/ TryAddress(c) \/ AddressFails(c) \/ NoAddressLeft(c) \/ Connected(c)
    \/ Tunnel(c) \/ Create(c) \/ TlsInit(c) \/ NewContext(c) \/ Configure(c)
    \/ NewSsl(c) \/ Handshake(c) \/ Destroy(c)

ConnectNext ==
    \/ \E c \in Callers : Route(c) \/ Step(c)
    \/ \E l \in Lookups : Thread(l) /\ UNCHANGED connVars

\* A thread runs its callers in turn, and every wait has its timeout; getaddrinfo
\* answers some time
ConnectFairness ==
    /\ \A c \in Callers : SF_allVars(Step(c))
    /\ \A l \in Lookups : WF_allVars(Thread(l) /\ UNCHANGED connVars)

ConnectSpec == ConnectInit /\ [][ConnectNext]_allVars /\ ConnectFairness
----------------------------------------------------------------------------
(* Properties *)

\* Every socket that is open is the one of a caller that connects or is
\* connected, and no two share one: no address that fails, no tunnel that is
\* refused and no step that runs out of memory leaves one behind.  The addresses
\* are held exactly while they are walked.
SocketsOwned ==
    /\ opened = {fd[c] : c \in Callers} \ {None}
    /\ \A c, d \in Callers : fd[c] = fd[d] /\ fd[c] # None => c = d
    /\ \A c \in Callers :
          /\ fd[c] # None <=> step[c] \notin {"idle", "resolve", "resolving", "walk"}
          /\ step[c] \in {"walk", "connecting"} <=> addrs[c] # None /\ ~(step[c] = "resolving")

\* A caller is told that nobody can be reached only when every address was tried
EveryAddressTried == \A c \in Callers : why[c] = "unreachable" => tried[c] = Addresses

\* A caller is in corRestResolve only while it resolves, and is told of a failure
\* only once it has given up; the tunnel and the SSL object are there from the
\* step that made them on, and only for the callers that need them
CallersInOrder ==
    \A c \in Callers :
        /\ pc[c] # "idle" => step[c] = "resolving"
        /\ step[c] # "idle" => why[c] = "none"
        /\ step[c] \in {"resolve", "resolving", "walk", "connecting", "tunnel"} => ~tunnel[c]
        /\ step[c] = "tunnel" => route[c].set /\ ask[c].tls
        /\ step[c] \in {"create", "tls", "context", "configure", "handshake", "up"} =>
              (tunnel[c] <=> route[c].set /\ ask[c].tls)
        /\ step[c] \in {"tls", "context", "configure", "handshake"} => ask[c].tls
        /\ ssl[c] # None => step[c] \in {"handshake", "up"}
        /\ step[c] = "up" => (ask[c].tls <=> ssl[c] # None)

\* While nobody has begun the initialisation beside another, one at a time makes
\* the context, and nobody shakes hands before it is told whether to verify
\* certificates: every SSL object does, unless the process was told to be insecure
TlsInOrder ==
    ~raced =>
        /\ \A c \in Callers : step[c] \in {"context", "configure"} =>
              ~tlsInited /\ (step[c] = "context" <=> sslCtx = None)
        /\ \A c, d \in Callers : step[c] \in {"context", "configure"} /\ step[d] \in {"context", "configure"} => c = d
        /\ \A c \in Callers : step[c] = "handshake" => tlsInited
        /\ sslCtx \notin configured \cup {None} => \E c \in Callers : step[c] = "configure"
        /\ tlsInited => sslCtx \in configured
        /\ \A c \in Callers : ssl[c] # None => (checked[c] <=> ~Insecure)

\* Sockets and addresses have one owner each, over a well-typed state, and the
\* Lookups live as long as somebody uses them
ConnectInv ==
    /\ ConnectTypeOK /\ HeldWhileUsed /\ AddressesOwned /\ AnswerIsWhole
    /\ SocketsOwned /\ EveryAddressTried
    /\ LookupsInOrder /\ CallersInOrder /\ TlsInOrder

\* The proxies are those of the URLs given, both or none; and a request goes
\* straight to its host exactly if there is none for its scheme, or the host is,
\* label by label, in a domain of the list
RouteRight ==
    LET cfg       == Configs[config]
        given     == cfg.http.valid /\ cfg.https.valid
        url(a)    == IF a.tls THEN cfg.https ELSE cfg.http
        exempt(a) == \E d \in cfg.domains : d = <<"*">> \/ InDomain(a.host, d)
    IN  \A c \in Callers : step[c] = "resolve" =>
            route[c] = IF ~given \/ exempt(ask[c]) THEN NoProxy ELSE url(ask[c]).proxy

\* corRestClientTls.c:29, of the context: "one per process".  The SSL object of every
\* connection is made from the one the process has.
OneContext == \A c \in Callers : ssl[c] # None => ssl[c] = sslCtx

\* A connection is made or refused, whatever times out on the way, and no Lookup
\* stays behind
ConnectEnds ==
    /\ \A c \in Callers : step[c] # "idle" ~> step[c] = "idle"
    /\ \A l \in Lookups : l \in alive ~> l \notin alive
=============================================================================
