----------------------------- MODULE MCDispatch -----------------------------
(***************************************************************************)
(* A service table with patterns of every kind, and services that take     *)
(* parameters; the paths and queries that tell them apart, asked of the    *)
(* loop itself while nothing else is under way; and two coroutines that    *)
(* interleave.                                                             *)
(***************************************************************************)
EXTENDS Dispatch

CONSTANTS a, b, d

Chars(text) == [n \in 1 .. Len(text) |-> SubSeq(text, n, n)]

CodeDef ==
    LET from(n, text) == [ch \in {SubSeq(text, i, i) : i \in 1 .. Len(text)} |->
                              n - 1 + CHOOSE i \in 1 .. Len(text) : SubSeq(text, i, i) = ch]
    IN  from(48, "0123456789:") @@ from(61, "=") @@ from(63, "?") @@ from(65, "AB") @@ from(70, "F")
            @@ from(97, "abcdef") @@ from(112, "p") @@ from(114, "r") @@ from(116, "t")
            @@ from(118, "v") @@ from(120, "xy") @@ from(32, " ") @@ from(35, "#")
            @@ from(37, "%&") @@ from(42, "*+") @@ from(47, "/")

RegistryDef == << [name |-> <<"x">>, bit |-> 3], [name |-> <<"y">>, bit |-> 2], [name |-> <<"x">>, bit |-> 1] >>

On(verb, text, params) == [verb |-> verb, url |-> Chars(text), routine |-> text, params |-> params]

ServicesDef ==
    << On("GET", "/e", {1}), On("POST", "/e", {1, 2}), On("GET", "/e/*", AnyParam), On("DELETE", "/e/*", {}),
       On("GET", "/e/*/a/*", {}), On("POST", "/e/*/a", {}), On("DELETE", "/e/*/a/*/v", {}),
       On("GET", "/b/**", {}), On("GET", "/e/*/a/*/v/*", {}) >>

\* The query of parameters as a client writes it
Pair(name, value) == [name |-> Chars(name), value |-> Chars(value)]

Written(params) ==
    FoldLeftDomain(LAMBDA text, i : text \o (IF i = 1 THEN <<>> ELSE <<"&">>) \o Encode(params[i].name)
                                         \o <<"=">> \o Encode(params[i].value), <<>>, params)

Ask(verb, text) == [verb |-> verb, path |-> Chars(text), query |-> <<>>, sent |-> <<>>]

With(verb, text, query, params) ==
    [verb |-> verb, path |-> Chars(text), query |-> Chars(query), sent |-> params]

Encoding(verb, text, params) ==
    [verb |-> verb, path |-> Chars(text), query |-> Written(params), sent |-> params]

Queries(verb, text) ==
    { Encoding(verb, text, params) :
          params \in { <<Pair("x", "a+b")>>, <<Pair("x", "a b&y=?#"), Pair("y", "%41")>>,
                       <<Pair("x", "a"), Pair("x", "b=a")>>, <<Pair("v", "a")>>,
                       <<Pair("pretty", "1"), Pair("x", "a"), Pair("pretty", "2"), Pair("pretty", "3")>> } }
    \cup { With(verb, text, "x=a+b", <<Pair("x", "a b")>>),
           With(verb, text, "%78=%2&y", <<Pair("x", "%2"), Pair("y", "")>>),
           With(verb, text, "&x=%2B%2", <<Pair("", ""), Pair("x", "+%2")>>),
           With(verb, text, "x=a=%62&", <<Pair("x", "a=b")>>) }

AsksDef ==
    [c \in Coroutines |->
        IF c = a
        THEN { Ask(v, p) : v \in {"GET", "DELETE", "TRACE"},
                           p \in {"/e/x", "/e/x/a", "/e/x/a/y", "/e/x/a/y/v", "/e/x/a/y/v/x",
                                  "/e/x/y", "/b/x/y", "/b/a://b/x", "/e//a", "/e//a/y", "/e/x/a/%2F", "/d0x/a/y", "/e/x/y/a/x/v", "/v", "/e/a://b/x/a"} }
             \cup { Ask("GET", p) : p \in {"/e/%78/", "/e/x%2Fa", "/e/x//", "/%65", "/"} }
             \cup Queries("GET", "/e") \cup Queries("POST", "/e") \cup Queries("GET", "/e/x")
             \cup {Ask("HEAD", "/e/x/a/y"), Ask("OPTIONS", "/e"), With("OPTIONS", "/e", "x=a", <<Pair("x", "a")>>),
                   Ask("BREW", "/e"), Ask("POST", "/e/x/a"), Ask("POST", "/e/x")}
        ELSE IF c = b THEN {Ask("POST", "/e")} ELSE {Ask("GET", "/b/x")}]

ForwardsDef ==
    [c \in Coroutines |->
        IF c = a THEN {Encoding("POST", "/e", <<Pair("x", "a b&y=?#"), Pair("y", "%41")>>),
                       Encoding("GET", "/e", <<Pair("x", "a+b")>>)}
        ELSE IF c = b THEN {Ask("GET", "/e/x")} ELSE {}]

BodiedDef == [c \in Coroutines |-> IF c = a THEN {"GET", "DELETE"} \cup Writes ELSE Writes]

EarlyDef == [c \in Coroutines |-> IF c = a THEN {"411", "413", "refused", "silent"} ELSE {}]
=============================================================================
