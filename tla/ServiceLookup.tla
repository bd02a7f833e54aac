--------------------------- MODULE ServiceLookup ---------------------------
(***************************************************************************)
(* Which service routine serves a request: the preparation of a URL        *)
(* pattern (servicePrepare of corRestInit.c), the tables of the verbs      *)
(* (routesBuild) and the search (corRestServiceLookup.c).                  *)
(*                                                                         *)
(* A text is a sequence of characters.  The URL path is a C buffer that    *)
(* the search writes into: Nul in it ends the string, what follows is      *)
(* still there.  Code gives the characters their numbers, because the      *)
(* search compares sums of them.                                           *)
(*                                                                         *)
(* Bounds of the C code that no text here reaches: literals of 16          *)
(* characters, paths of 64.  A pattern has at most three wildcards, does   *)
(* not begin with one, and no two of them are adjacent.                    *)
(***************************************************************************)
EXTENDS Integers, Sequences, FiniteSets, SequencesExt

CONSTANTS
    Code,       \* character -> its number (ASCII)
    Services    \* what the application registers: <<[verb, url, routine, params], ...>>

Verbs == <<"GET", "PUT", "POST", "DELETE", "PATCH", "HEAD", "OPTIONS">>

Nul == ""

SumOf(text) == FoldLeft(LAMBDA sum, ch : sum + Code[ch], 0, text)

----------------------------------------------------------------------------
(* C strings in a buffer; positions count from 1 *)

CString(buf, from) ==
    LET rest == SubSeq(buf, from, Len(buf))
        ends == {i \in DOMAIN rest : rest[i] = Nul}
    IN  IF ends = {} THEN rest
        ELSE SubSeq(rest, 1, (CHOOSE i \in ends : \A j \in ends : i <= j) - 1)

\* Where text begins in the string that starts at from; 0 when nowhere (strstr)
StrStr(buf, from, text) ==
    LET str == CString(buf, from)
        at  == {i \in 1 .. Len(str) - Len(text) + 1 :
                    SubSeq(str, i, i + Len(text) - 1) = text}
    IN  IF at = {} THEN 0
        ELSE from - 1 + (CHOOSE i \in at : \A j \in at : i <= j)

\* "<scheme>://": a lower-case letter, then letters, digits, '+', '.', '-'
IsUrlForm(text) ==
    LET letters == {ch \in DOMAIN Code : Code[ch] \in 97 .. 122}
        scheme  == letters \cup {ch \in DOMAIN Code : Code[ch] \in 48 .. 57}
                           \cup ({"+", ".", "-"} \cap DOMAIN Code)
    IN  /\ Len(text) >= 4
        /\ text[1] \in letters
        /\ \E k \in 1 .. Len(text) - 3 :
              /\ SubSeq(text, k + 1, k + 3) = <<":", "/", "/">>
              /\ \A i \in 2 .. k : text[i] \in scheme

HasSlash(text) == \E i \in DOMAIN text : text[i] = "/"

----------------------------------------------------------------------------
(* servicePrepare: a pattern, cut at its wildcards *)

\* "**" counts as one; the literal before it ends only at its second '*'
Prepare(service) ==
    LET url   == service.url
        stars == SetToSortSeq({i \in DOMAIN url : url[i] = "*" /\ (i = 1 \/ url[i - 1] # "*")}, <)
        n     == Len(stars)
        Last_(k) == IF stars[k] < Len(url) /\ url[stars[k] + 1] = "*" THEN stars[k] + 1 ELSE stars[k]
        Between(k) == SubSeq(url, Last_(k) + 1, IF n > k THEN Last_(k + 1) - 1 ELSE Len(url))
    IN  [ url       |-> url,
          routine   |-> service.routine,
          params    |-> service.params,
          wildcards |-> n,
          greedy    |-> \E k \in 1 .. n : Last_(k) # stars[k],
          prefix    |-> IF n = 0 THEN url ELSE SubSeq(url, 1, stars[1] - 1),
          second    |-> IF n >= 1 THEN Between(1) ELSE <<>>,
          third     |-> IF n >= 3 THEN Between(2) ELSE <<>>,
          after     |-> IF n >= 2 THEN SubSeq(url, Last_(n) + 1, Len(url)) ELSE <<>> ]

\* routesBuild: HEAD for every GET, OPTIONS for every path
RoutesOf(verb) ==
    LET own(s) == s.verb = verb \/ (verb = "HEAD" /\ s.verb = "GET")
        optionsOf(routes, s) ==
            IF \E i \in DOMAIN routes : routes[i].url = s.url THEN routes
            ELSE Append(routes, Prepare([url |-> s.url, routine |-> "optionsHandler", params |-> {}]))
        listed == FoldLeft(LAMBDA routes, s : IF own(s) THEN Append(routes, Prepare(s)) ELSE routes,
                           <<>>, Services)
    IN  IF verb = "OPTIONS" THEN FoldLeft(optionsOf, listed, Services) ELSE listed

Routes == [v \in {Verbs[i] : i \in DOMAIN Verbs} |-> RoutesOf(v)]

----------------------------------------------------------------------------
(* corRestServiceLookup: one service after the other, over one buffer *)

OneSegment(service, text) == service.greedy \/ ~HasSlash(text) \/ IsUrlForm(text)

Missed(buf) == [found |-> FALSE, buf |-> buf, wildcard |-> <<>>]

Found(buf, wildcard) == [found |-> TRUE, buf |-> buf, wildcard |-> wildcard]

\* No wildcard: length, sum and text are the request's
TryExact(service, buf, path) ==
    IF /\ Len(service.prefix) = Len(path)
       /\ SumOf(service.prefix) = SumOf(path)
       /\ CString(buf, 1) = service.url
    THEN Found(buf, <<>>)
    ELSE Missed(buf)

\* What a service with wildcards is skipped by; sLen and the sums are those of
\* the path as it was when the search began
PrefixFits(service, path) ==
    /\ Len(service.prefix) < Len(path)
    /\ SumOf(service.prefix) = SumOf(SubSeq(path, 1, Len(service.prefix)))

\* Mutant: a last wildcard takes whatever is left of the path
TryOneDeep(service, buf, path) ==
    LET start == Len(service.prefix) + 1
        end   == Len(path) - Len(service.second) + 1
        cut   == [buf EXCEPT ![end] = Nul]
    IN  IF ~PrefixFits(service, path) \/ SubSeq(buf, 1, start - 1) # service.prefix THEN Missed(buf)
        ELSE IF service.second = <<>> THEN Found(buf, <<CString(buf, start)>>)
        ELSE IF end > start /\ SubSeq(buf, end, Len(path)) = service.second
             THEN Found(cut, <<CString(cut, start)>>)
             ELSE Missed(buf)

TryOne(service, buf, path) ==
    LET start == Len(service.prefix) + 1
        end   == Len(path) - Len(service.second) + 1
        tail  == CString(buf, start)
        mid   == SubSeq(buf, start, end - 1)
        cut   == [buf EXCEPT ![end] = Nul]
    IN  IF ~PrefixFits(service, path) \/ SubSeq(buf, 1, start - 1) # service.prefix THEN Missed(buf)
        ELSE IF service.second = <<>>
             THEN IF OneSegment(service, tail) THEN Found(buf, <<tail>>) ELSE Missed(buf)
        ELSE IF end > start /\ SubSeq(buf, end, Len(path)) = service.second /\ OneSegment(service, mid)
             THEN Found(cut, <<CString(cut, start)>>)
             ELSE Missed(buf)

\* The prefix itself is not compared, its sum is; and the suffix is trimmed off
\* before the first wildcard is looked at
TryTwo(service, buf, path) ==
    LET start == Len(service.prefix) + 1
        trimmed(match, rest, kept) ==
            IF ~OneSegment(service, SubSeq(buf, start, match - 1)) THEN Missed(kept)
            ELSE Found([kept EXCEPT ![match] = Nul], <<SubSeq(buf, start, match - 1), CString(kept, rest)>>)
        ending(match, rest, value, suffix) ==
            IF service.after = <<>> THEN trimmed(match, rest, buf)
            ELSE IF Len(value) > Len(service.after) /\ CString(buf, suffix) = service.after
            THEN trimmed(match, rest, [buf EXCEPT ![suffix] = Nul])
            ELSE Missed(buf)
        value(match, rest, text) == ending(match, rest, text, rest + Len(text) - Len(service.after))
        split(match) ==
            IF match = 0 THEN Missed(buf)
            ELSE value(match, match + Len(service.second), CString(buf, match + Len(service.second)))
    IN  IF PrefixFits(service, path) THEN split(StrStr(buf, start, service.second)) ELSE Missed(buf)

\* What follows the third wildcard is not looked at
TryThree(service, buf, path) ==
    LET start == Len(service.prefix) + 1
        taken(sep1, sep2, values) ==
            IF \E i \in 1 .. 3 : ~OneSegment(service, values[i]) THEN Missed(buf)
            ELSE Found([buf EXCEPT ![sep1] = Nul, ![sep2] = Nul], values)
        between(sep1, wc1, sep2) ==
            IF sep1 = 0 \/ sep2 = 0 THEN Missed(buf)
            ELSE taken(sep1, sep2, <<SubSeq(buf, start, sep1 - 1), SubSeq(buf, wc1, sep2 - 1),
                                     CString(buf, sep2 + Len(service.third))>>)
        second(sep1, wc1) == between(sep1, wc1, StrStr(buf, wc1, service.third))
        first(sep1) == second(sep1, sep1 + Len(service.second))
    IN  IF PrefixFits(service, path) THEN first(StrStr(buf, start, service.second)) ELSE Missed(buf)

Try(service, buf, path) ==
    IF service.wildcards = 0 THEN TryExact(service, buf, path)
    ELSE IF service.wildcards = 1 THEN TryOne(service, buf, path)
    ELSE IF service.wildcards = 2 THEN TryTwo(service, buf, path)
    ELSE TryThree(service, buf, path)

\* The first route that takes the request: ix its place in the table, 0 for none
Lookup(routes, buf) ==
    LET path == CString(buf, 1)
        outcome(ix, t) == [ix |-> IF t.found THEN ix ELSE 0, buf |-> t.buf, wildcard |-> t.wildcard]
        step(s, ix) == IF s.ix # 0 THEN s ELSE outcome(ix, Try(routes[ix], s.buf, path))
    IN  FoldLeftDomain(step, [ix |-> 0, buf |-> path, wildcard |-> <<>>], routes)

----------------------------------------------------------------------------
(* What a pattern means, for comparison: its wildcards stand for texts that, *)
(* put back into it, give the path                                           *)

\* The pattern with values in place of its wildcards
Fill(url, values) ==
    FoldLeftDomain(
        LAMBDA acc, i :
            IF url[i] # "*" THEN [acc EXCEPT !.text = Append(@, url[i])]
            ELSE IF i > 1 /\ url[i - 1] = "*" THEN acc
            ELSE [n |-> acc.n + 1, text |-> acc.text \o values[acc.n + 1]],
        [n |-> 0, text |-> <<>>], url).text

\* A wildcard is one segment, not empty; the last of two is taken as it comes.
\* from[i, j]: the pattern from i on stands for the path from j on
Matches(service, path) ==
    LET url == service.url
        starAt(i) == i <= Len(url) /\ url[i] = "*"
        loose(i) == service.wildcards = 2 /\ \E k \in 1 .. i - 2 : starAt(k)
        after(i) == IF starAt(i + 1) THEN i + 2 ELSE i + 1
        from[i \in 1 .. Len(url) + 1, j \in 1 .. Len(path) + 1] ==
            IF i > Len(url) THEN j > Len(path)
            ELSE IF ~starAt(i) THEN j <= Len(path) /\ path[j] = url[i] /\ from[i + 1, j + 1]
            ELSE \E k \in j .. Len(path) :
                    /\ loose(i) \/ OneSegment(service, SubSeq(path, j, k))
                    /\ from[after(i), k + 1]
    IN  from[1, 1]

\* The route found has an empty text for a wildcard: of two or three, the code does not
\* ask whether there is something between the literals
TakesEmpty(routes, path) == <<>> \in Range(Lookup(routes, path).wildcard)

\* A search that the code itself leads astray: a service it skipped has cut the
\* path short, or one with two wildcards or more has a prefix of the same sum only
Astray(routes, path) ==
    LET cut(skipped) == Lookup(skipped, path).buf # path
        mistaken(tried) ==
            \E j \in DOMAIN tried : /\ tried[j].wildcards >= 2
                                    /\ PrefixFits(tried[j], path)
                                    /\ SubSeq(path, 1, Len(tried[j].prefix)) # tried[j].prefix
        by(ix) == IF ix = 0 THEN cut(routes) \/ mistaken(routes)
                  ELSE cut(SubSeq(routes, 1, ix - 1)) \/ mistaken(SubSeq(routes, 1, ix))
    IN  by(Lookup(routes, path).ix)
=============================================================================
