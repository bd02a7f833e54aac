------------------------------ MODULE MCConnect ------------------------------
(***************************************************************************)
(* Two callers on threads of their own, or on one; hosts in, beside and    *)
(* outside the domains of the no-proxy lists; proxy URLs that are one and  *)
(* that are none.                                                          *)
(***************************************************************************)
EXTENDS Connect, TLC

CONSTANTS a, b, x, y, s1, s2, ctx1, ctx2

Chars(text) == [n \in 1 .. Len(text) |-> SubSeq(text, n, n)]

DigitDef == [ch \in {"0", "1", "2", "3", "4", "5", "6", "7", "8", "9"} |->
                CHOOSE n \in 0 .. 9 : ToString(n) = ch]

LowerDef == ("E" :> "e") @@ ("H" :> "h") @@ ("O" :> "o")

Url(user, host, v6, port, path) ==
    LET text == user \o (IF user = "" THEN "" ELSE "@") \o (IF v6 THEN "[" \o host \o "]" ELSE host)
                     \o (IF port = "" THEN "" ELSE ":" \o port) \o path
    IN  [ text |-> Chars("http://" \o text), valid |-> TRUE,
          proxy |-> [ set |-> TRUE, host |-> Chars(host), auth |-> Chars(user),
                      port |-> IF port = "" THEN 1080 ELSE Number(Chars(port)) ] ]

None_ == [text |-> <<>>, valid |-> TRUE, proxy |-> NoProxy]

Bad(text) == [text |-> Chars(text), valid |-> FALSE, proxy |-> NoProxy]

Ask(tls, host) == [tls |-> tls, host |-> Chars(host)]

Apart == [c \in Callers |-> c]

Together == [c \in Callers |-> a]

Config(insecure, http, https, list, domains, on_, asks) ==
    [http |-> http, https |-> https, list |-> Chars(list), domains |-> {Chars(d) : d \in domains},
     on |-> on_, asks |-> asks, insecure |-> insecure]

Both == [c \in Callers |-> {Ask(TRUE, "h.e")}]

Mixed == [c \in Callers |-> {Ask(c = a, "h.e")}]

One == [c \in Callers |-> IF c = a THEN {Ask(tls, h) : tls \in BOOLEAN, h \in {"xe.o", "h.E.o", "::1"}} ELSE {}]

ConfigsDef ==
    << Config(FALSE, Url("u", "q.e", FALSE, "1", ""), None_, "", {}, Apart, Both),
       Config(TRUE, None_, Url("", "p", FALSE, "1", ""), "", {}, Together, Mixed),
       Config(FALSE, Url("u:w", "p", FALSE, "80", "/"), Url("", "::1", TRUE, "8443", ""), "x, .e.O:80,", {"x", "e.o"}, Apart, One),
       Config(FALSE, Url("", "p", FALSE, "", "/@"), None_, "o:80 [::1]:80 ::1", {"o", "[::1]:80", "::1"}, Apart, One),
       Config(FALSE, Url("u", "p", FALSE, "80", ""), Url("", "p", FALSE, "80", ""), "x,*", {"*"}, Apart, One),
       Config(FALSE, Url("u", "p", FALSE, "80", ""), Bad("https://p"), "", {}, Apart, One),
       Config(FALSE, Bad("p:0"), Url("", "p", FALSE, "80", ""), "", {}, Apart, One),
       Config(FALSE, Bad("http://[::1"), Bad("u@:80"), "e.o", {}, Apart, One) >>
=============================================================================
