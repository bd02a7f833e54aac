----------------------------- MODULE ProxyRoute -----------------------------
(***************************************************************************)
(* Which way a request goes (corRestClientProxy.c): the proxy URLs that    *)
(* the application gives, the list of hosts that go without, and the route *)
(* of a host.  A text is a sequence of characters.  Bounds of the C code   *)
(* that no text here reaches: user:password of 360 characters, hosts of    *)
(* 256.                                                                    *)
(***************************************************************************)
EXTENDS Integers, Sequences, FiniteSets, SequencesExt

CONSTANTS
    Digit,      \* character -> its value, of the digits
    Lower       \* character -> its lower case, where that is another

Folded(text) == [i \in DOMAIN text |-> IF text[i] \in DOMAIN Lower THEN Lower[text[i]] ELSE text[i]]

\* Where ch first is in text; 0: nowhere
First(text, ch) ==
    LET at == {i \in DOMAIN text : text[i] = ch}
    IN  IF at = {} THEN 0 ELSE CHOOSE i \in at : \A j \in at : i <= j

From(text, i) == SubSeq(text, i, Len(text))

----------------------------------------------------------------------------
(* proxyParse: [http://][user:password@]host[:port][/]                     *)

Http == <<"h", "t", "t", "p", ":", "/", "/">>

NoProxy == [set |-> FALSE, host |-> <<>>, port |-> 0, auth |-> <<>>]

NotAProxy == [valid |-> FALSE, proxy |-> NoProxy]

\* strtol; -1: something else is there
Number(text) ==
    IF \E i \in DOMAIN text : text[i] \notin DOMAIN Digit THEN -1
    ELSE FoldLeft(LAMBDA n, ch : 10 * n + Digit[ch], 0, text)

OtherScheme(url) == \E i \in 1 .. Len(url) - 2 : SubSeq(url, i, i + 2) = <<":", "/", "/">>

\* Of what follows the scheme: at the first '@' before any '/'
AfterUser(rest) ==
    LET at == First(rest, "@")
        sl == First(rest, "/")
    IN  IF at # 0 /\ (sl = 0 \/ at < sl) THEN at ELSE 0

ProxyParse(url) ==
    LET isHttp   == Len(url) >= 7 /\ Folded(SubSeq(url, 1, 7)) = Http
        rest     == IF isHttp THEN From(url, 8) ELSE url
        at       == AfterUser(rest)
        tail     == From(rest, at + 1)
        slash    == First(tail, "/")
        hostPort == IF slash = 0 THEN tail ELSE SubSeq(tail, 1, slash - 1)
        v6       == hostPort # <<>> /\ hostPort[1] = "["
        close    == First(hostPort, "]")
        colon    == IF v6 THEN (IF close < Len(hostPort) /\ hostPort[close + 1] = ":" THEN close + 1 ELSE 0)
                    ELSE First(hostPort, ":")
        host     == IF v6 THEN SubSeq(hostPort, 2, close - 1)
                    ELSE IF colon = 0 THEN hostPort ELSE SubSeq(hostPort, 1, colon - 1)
        port     == IF colon = 0 THEN 1080 ELSE Number(From(hostPort, colon + 1))
    IN  IF url = <<>> THEN [valid |-> TRUE, proxy |-> NoProxy]
        ELSE IF \/ ~isHttp /\ OtherScheme(url)
                \/ v6 /\ close = 0
                \/ port \notin 1 .. 65535
                \/ host = <<>>
             THEN NotAProxy
        ELSE [valid |-> TRUE,
              proxy |-> [set |-> TRUE, host |-> host, port |-> port, auth |-> SubSeq(rest, 1, at - 1)]]

NoProxies == [http |-> NoProxy, https |-> NoProxy, list |-> <<>>]

\* corRestClientProxySet: all of it or, when a URL is none, nothing
ProxySet(httpUrl, httpsUrl, list) ==
    LET h == ProxyParse(httpUrl)
        s == ProxyParse(httpsUrl)
    IN  IF h.valid /\ s.valid THEN [http |-> h.proxy, https |-> s.proxy, list |-> list] ELSE NoProxies

----------------------------------------------------------------------------
(* noProxyMatch *)

Entries(list) ==
    LET sep(i) == i \in {0, Len(list) + 1} \/ (i \in DOMAIN list /\ list[i] \in {",", " "})
        entry(i, j) == i <= j /\ sep(i - 1) /\ sep(j + 1) /\ \A k \in i .. j : ~sep(k)
        ends(i) == {j \in DOMAIN list : entry(i, j)}
    IN  UNION {{SubSeq(list, i, j) : j \in ends(i)} : i \in DOMAIN list}

\* A port is what follows the only colon; more colons are an address's
WithoutPort(entry) ==
    IF Cardinality({i \in DOMAIN entry : entry[i] = ":"}) = 1 /\ First(entry, "]") = 0
    THEN SubSeq(entry, 1, First(entry, ":") - 1)
    ELSE entry

Undotted(entry) == IF entry # <<>> /\ entry[1] = "." THEN Tail(entry) ELSE entry

\* Mutant: any end of the host's name
EntryMatchesEnd(entry, host) ==
    LET e == Undotted(WithoutPort(entry))
        n == Len(host) - Len(e)
    IN  \/ WithoutPort(entry) = <<"*">>
        \/ n >= 0 /\ Folded(From(host, n + 1)) = Folded(e)

EntryMatches(entry, host) ==
    LET e == Undotted(WithoutPort(entry))
        n == Len(host) - Len(e)
    IN  \/ WithoutPort(entry) = <<"*">>
        \/ n = 0 /\ Folded(host) = Folded(e)
        \/ n > 0 /\ host[n] = "." /\ Folded(From(host, n + 1)) = Folded(e)

NoProxyMatch(list, host) == \E entry \in Entries(list) : EntryMatches(entry, host)

\* corRestClientProxyFor; NoProxy: straight to the host
ProxyFor(proxies, tls, host) ==
    IF NoProxyMatch(proxies.list, host) THEN NoProxy
    ELSE IF tls THEN proxies.https ELSE proxies.http

----------------------------------------------------------------------------
(* For comparison: names by their labels                                   *)

\* The labels of a name, between its dots
Labels(name) ==
    FoldLeft(LAMBDA labels, ch : IF ch = "." THEN Append(labels, <<>>)
                                 ELSE [labels EXCEPT ![Len(labels)] = Append(@, ch)],
             << <<>> >>, Folded(name))

\* The host is the domain, or in it
InDomain(host, domain) == IsSuffix(Labels(domain), Labels(host))
=============================================================================
